---- MODULE Spec2Model ----
(***************************************************************************)
(* TaglessCRM: the checkpointed, partial-failure-tracked event delivery    *)
(* pipeline.  One operator run (BaseDataConnectorOperator.execute) pulls   *)
(* blobs from the source reader or from the checkpoint store's failure     *)
(* replay, sends each blob to the sink and records the outcome in the      *)
(* checkpoint store (MonitoringHook.store_blob / store_events).            *)
(*                                                                         *)
(* The operator loop is translated from                                    *)
(*   src/src/plugins/pipeline_plugins/operators/data_connector_operator_v2.py *)
(* The hooks it calls (blob, monitoring hook, input and output hooks) are  *)
(* not among the source files; they are modelled from spec.md sections 3   *)
(* and 4 and from the hook tests under src/src/test/hooks.                 *)
(***************************************************************************)
EXTENDS Integers, Sequences, FiniteSets, TLC

(***************************************************************************)
(* Bounds of the model.                                                    *)
(***************************************************************************)
\* number of records of the fixed source (positions 0 .. SourceLen-1)
SourceLen == 3
\* largest number of records the source reader or the replay puts in a blob
MaxBlobRows == 2
\* number of operator runs explored
MaxRuns == 2

(***************************************************************************)
(* Program constants.                                                      *)
(***************************************************************************)
\* error code of errors.DataOutConnectorError, the request-level failure
SystemicErrorCode == 10
\* a record-level error code returned by the sink for one record
RecordErrorCode == 5
\* the location of the operator's input hook (input_hook.get_location())
Location == "L"

RecordErrorCodes == {RecordErrorCode}

\* the record stored at a position of the fixed source
SourceRecord(p) == IF p % 3 = 0 THEN "A" ELSE IF p % 3 = 1 THEN "B" ELSE "C"

SourcePositions == 0 .. (SourceLen - 1)

(***************************************************************************)
(* Blob (spec.md 3 and 4.1).                                               *)
(***************************************************************************)
\* Blob(events, location, position): num_rows defaults to len(events),
\* failed_events starts empty
Blob(events, location, position) ==
  [events |-> events, location |-> location, position |-> position,
   num_rows |-> Len(events), failed_events |-> <<>>, reports |-> "none"]

\* the blob the loop variable holds before the first blob is pulled
NoBlob == Blob(<<>>, Location, 0)

\* truth value of a blob in "if blb:"
BlobIsNonEmpty(b) == Len(b.events) > 0

\* ProcessedRange(location, position, position + num_rows)
ProcessedRange(location, position, num_rows) ==
  [location |-> location, start |-> position, end |-> position + num_rows]

\* FailedEventRecord(location, absolute_position, record_payload, error_code)
FailedEventRecord(location, entry) ==
  [location |-> location, position |-> entry[1], payload |-> entry[2],
   code |-> entry[3]]

\* the positions a set of processed ranges covers at a location
Covered(ranges, location) ==
  {p \in SourcePositions :
     \E r \in ranges : r.location = location /\ r.start <= p /\ p < r.end}

\* the absolute positions of a blob's records
BlobPositions(b) == b.position .. (b.position + b.num_rows - 1)

\* the elements of a sequence
Range(s) == {s[i] : i \in 1 .. Len(s)}

(***************************************************************************)
(* Sink sender (spec.md 4.3; src/src/test/hooks/ads_oc_hook_v2_test.py).   *)
(* An outcome of the upload call is either a request-level error or a      *)
(* list of (index, error code) pairs, one per failed record.               *)
(***************************************************************************)
UploadOutcomes(n) ==
  {[kind |-> "request_error", failures |-> <<>>]} \cup
  {[kind |-> "response", failures |-> f] :
     f \in UNION {[S -> RecordErrorCodes] : S \in SUBSET (0 .. (n - 1))}}

\* the indices an upload response reports as failed, in increasing order
RECURSIVE IndicesFrom(_, _, _)
IndicesFrom(S, i, n) ==
  IF i >= n THEN <<>>
  ELSE IF i \in S THEN <<i>> \o IndicesFrom(S, i + 1, n)
       ELSE IndicesFrom(S, i + 1, n)

\* variant: the failed events carry the index within the blob
RequestFailureEvents_relative(b) ==
  [i \in 1 .. Len(b.events) |-> <<i - 1, b.events[i], SystemicErrorCode>>]

\* failed_events after a request-level error: every record of the blob,
\* (position + index, record, error.error_num)
RequestFailureEvents(b) ==
  [i \in 1 .. Len(b.events) |->
     <<b.position + (i - 1), b.events[i], SystemicErrorCode>>]

\* variant: one reported failure marks every record of the blob
PartialFailureEvents_whole_blob(b, failures) ==
  IF DOMAIN failures = {} THEN <<>>
  ELSE [i \in 1 .. Len(b.events) |->
          <<b.position + (i - 1), b.events[i], RecordErrorCode>>]

\* failed_events after a per-record result list
PartialFailureEvents(b, failures) ==
  LET idx == IndicesFrom(DOMAIN failures, 0, Len(b.events))
  IN  [k \in 1 .. Len(idx) |->
         <<b.position + idx[k], b.events[idx[k] + 1], failures[idx[k]]>>]

\* send_events(blob): the same blob with failed_events and reports filled in
send_events(b, outcome) ==
  IF outcome.kind = "request_error"
  THEN [b EXCEPT !.failed_events = RequestFailureEvents(b),
                 !.reports = "request_error"]
  ELSE [b EXCEPT !.failed_events = PartialFailureEvents(b, outcome.failures),
                 !.reports = "response"]

\* the indices of the blob the sink accepted under an outcome
AcceptedIndices(b, outcome) ==
  IF outcome.kind = "request_error" THEN {}
  ELSE (0 .. (Len(b.events) - 1)) \ DOMAIN outcome.failures

(***************************************************************************)
(* Checkpoint store (spec.md 4.4): MonitoringHook.                         *)
(***************************************************************************)
\* store_blob: writes one ProcessedRange
store_blob_ranges(ranges, location, position, num_rows) ==
  ranges \cup {ProcessedRange(location, position, num_rows)}

\* store_blob: the attempt recorded for [position, position + num_rows)
\* supersedes the failures recorded earlier for these positions
store_blob_failures(failures, location, position, num_rows) ==
  {f \in failures :
     ~(f.location = location /\ position <= f.position
       /\ f.position < position + num_rows)}

\* store_events: upserts one FailedEventRecord per (position, event, error)
RECURSIVE store_events(_, _, _)
store_events(failures, location, id_event_error_tuple_list) ==
  IF id_event_error_tuple_list = <<>> THEN failures
  ELSE LET e == Head(id_event_error_tuple_list)
           kept == {f \in failures :
                      ~(f.location = location /\ f.position = e[1])}
       IN  store_events(kept \cup {FailedEventRecord(location, e)},
                        location, Tail(id_event_error_tuple_list))

\* generate_processed_blobs_ranges: the ranges recorded for the location
generate_processed_blobs_ranges(ranges, location) ==
  {r \in ranges : r.location = location}

\* the outstanding failures of a location, by increasing position
RECURSIVE SortedByPosition(_)
SortedByPosition(failures) ==
  IF failures = {} THEN <<>>
  ELSE LET first == CHOOSE f \in failures :
                      \A g \in failures : f.position <= g.position
       IN  <<first>> \o SortedByPosition(failures \ {first})

\* monitor.events_blobs_generator(): the failure replay of the location
replay_failed(failures, location) ==
  SortedByPosition({f \in failures : f.location = location})

\* a prefix of k replayed failures can form one blob: consecutive positions
ContiguousPrefix(queue, k) ==
  /\ k >= 1 /\ k <= Len(queue) /\ k <= MaxBlobRows
  /\ \A i \in 1 .. k : queue[i].position = queue[1].position + (i - 1)

\* the blob rebuilt from the first k replayed failures
ReplayBlob(queue, k) ==
  Blob([i \in 1 .. k |-> queue[i].payload], queue[1].location,
       queue[1].position)

(***************************************************************************)
(* Source reader (spec.md 4.2): input_hook.events_blobs_generator.         *)
(***************************************************************************)
\* the first position at or after the cursor that no excluded range covers
RECURSIVE NextUncovered(_, _)
NextUncovered(cursor, excluded) ==
  IF cursor >= SourceLen THEN SourceLen
  ELSE IF cursor \in Covered(excluded, Location)
       THEN NextUncovered(cursor + 1, excluded)
       ELSE cursor

\* k records starting at p can form one blob: in the source, none excluded
ReadablePage(p, k, excluded) ==
  /\ k >= 1 /\ k <= MaxBlobRows /\ p + k <= SourceLen
  /\ \A q \in p .. (p + k - 1) : q \notin Covered(excluded, Location)

\* the blob read from the source at p
SourceBlob(p, k) ==
  Blob([i \in 1 .. k |-> SourceRecord(p + i - 1)], Location, p)

(***************************************************************************)
(* Airflow variables and the values read from them                         *)
(* (src/src/dags/base_dag.py).  A value is a Python value with its type.   *)
(***************************************************************************)
PyStr(s) == [type |-> "str", val |-> s]
PyInt(n) == [type |-> "int", val |-> n]
PyBool(b) == [type |-> "bool", val |-> b]
PyNone == [type |-> "NoneType", val |-> "None"]

\* the content of a variable that is not set
NotSet == [type |-> "unset", val |-> ""]

\* the result of a call: a value, or the exception it raised
Returned(v) == [raised |-> "none", value |-> v]
Raised(e) == [raised |-> e, value |-> PyNone]

\* the strings that hold a number, and the number each holds
NumericStrings == {"0", "1", "4", "8"}

IntOfString(s) ==
  IF s = "0" THEN 0 ELSE IF s = "1" THEN 1 ELSE IF s = "4" THEN 4 ELSE 8

\* int(x): a number, a bool, or a string holding a number
int(v) ==
  IF v.type = "int" THEN Returned(v)
  ELSE IF v.type = "bool" THEN Returned(PyInt(IF v.val THEN 1 ELSE 0))
  ELSE IF v.type = "str"
       THEN IF v.val \in NumericStrings
            THEN Returned(PyInt(IntOfString(v.val)))
            ELSE Raised("ValueError")
  ELSE Raised("TypeError")

\* variant: the strings 'False' and '0' are false
bool_parsed(v) ==
  IF v.type = "bool" THEN v.val
  ELSE IF v.type = "int" THEN v.val # 0
  ELSE IF v.type = "str" THEN v.val \notin {"", "False", "0"}
  ELSE FALSE

\* bool(x): the truth value of a Python value
bool(v) ==
  IF v.type = "bool" THEN v.val
  ELSE IF v.type = "int" THEN v.val # 0
  ELSE IF v.type = "str" THEN v.val # ""
  ELSE FALSE

\* str(x) of the values a variable can hold
str(v) ==
  IF v.type = "str" THEN v
  ELSE IF v.type = "bool" THEN PyStr(IF v.val THEN "True" ELSE "False")
  ELSE IF v.type = "int"
       THEN PyStr(IF v.val = 0 THEN "0" ELSE IF v.val = 1 THEN "1"
                  ELSE IF v.val = 4 THEN "4" ELSE "8")
  ELSE PyStr("None")

\* expected_type(val) for expected_type in str, int, bool
convert(expected_type, v) ==
  IF expected_type = "str" THEN Returned(str(v))
  ELSE IF expected_type = "int" THEN int(v)
  ELSE Returned(PyBool(bool(v)))

\* isinstance(value, expected_type); a bool is an int in Python
isinstance(v, expected_type) ==
  \/ v.type = expected_type
  \/ v.type = "bool" /\ expected_type = "int"

\* the name of a prefixed variable: f'{prefix}_{variable_name}'
prefixed(prefix, variable_name) == prefix \o "_" \o variable_name

\* Variable.get(key, default_var)
Variable_get(variables, key, default_var) ==
  IF key \in DOMAIN variables /\ variables[key] # NotSet
  THEN variables[key]
  ELSE default_var

\* BaseDag.get_variable_value(prefix, variable_name, expected_type,
\*   fallback_value, var_not_found_flag)
get_variable_value(variables, prefix, name, expected_type, fallback, flag) ==
  IF fallback # PyNone /\ ~isinstance(fallback, expected_type)
  THEN Raised("TypeError")
  ELSE LET val == Variable_get(variables, prefixed(prefix, name), flag)
           val2 == IF val = flag
                   THEN Variable_get(variables, name, fallback)
                   ELSE val
           converted == convert(expected_type, val2)
       IN  IF converted.raised = "ValueError" THEN Returned(fallback)
           ELSE converted

\* the names get_variable_value hands to Variable.get, in order
get_variable_value_reads(variables, prefix, name, expected_type, fallback, flag) ==
  IF fallback # PyNone /\ ~isinstance(fallback, expected_type)
  THEN <<>>
  ELSE IF Variable_get(variables, prefixed(prefix, name), flag) = flag
  THEN <<prefixed(prefix, name), name>>
  ELSE <<prefixed(prefix, name)>>

(***************************************************************************)
(* DAG construction (src/src/dags/base_dag.py and the DAG classes).  A DAG *)
(* is its list of tasks and the upstream relation between their ids:       *)
(* <<a, b>> says that a is upstream of b.                                  *)
(***************************************************************************)
\* base_dag.py: the defaults of the DAG options
_DAG_IS_RETRY == TRUE
_DAG_IS_RUN == TRUE
_DEFAULT_DAG_ENABLE_MONITORING_CLEANUP == FALSE
_DEFAULT_MONITORING_DATASET_ID == "tcrm_monitoring_dataset"
_DEFAULT_MONITORING_TABLE_ID == "tcrm_monitoring_table"
_MONITORING_BQ_CONN_ID == "bigquery_default"

\* _DAG_NAME of BigQueryToAdsUACDag and of BigQueryToAdsOCDagV2
DagNames == {"tcrm_bq_to_ads_uac", "tcrm_bq_to_ads_oc_v2"}

\* the task name each class hands to get_task_id
task_name(dag_name) ==
  IF dag_name = "tcrm_bq_to_ads_uac" THEN "bq_to_ads_uac" ELSE "bq_to_ads_oc"

\* the object before BaseDag.__init__ has run
NoBaseDag ==
  [raised |-> "none", dag_name |-> "", dag_is_retry |-> FALSE,
   dag_is_run |-> FALSE, dag_enable_monitoring_cleanup |-> FALSE,
   monitoring_dataset |-> PyNone]

\* BaseDag.__init__: every option is Variable.get(f'{dag_name}_<option>',
\* <default>), the flags through bool(int(...))
BaseDag_init(variables, dag_name) ==
  LET is_retry == int(Variable_get(variables, prefixed(dag_name, "is_retry"),
                                   PyBool(_DAG_IS_RETRY)))
      is_run == int(Variable_get(variables, prefixed(dag_name, "is_run"),
                                 PyBool(_DAG_IS_RUN)))
      cleanup ==
        int(Variable_get(variables,
                         prefixed(dag_name, "enable_monitoring_cleanup"),
                         PyBool(_DEFAULT_DAG_ENABLE_MONITORING_CLEANUP)))
  IN  IF is_retry.raised # "none"
      THEN [NoBaseDag EXCEPT !.raised = is_retry.raised]
      ELSE IF is_run.raised # "none"
      THEN [NoBaseDag EXCEPT !.raised = is_run.raised]
      ELSE IF cleanup.raised # "none"
      THEN [NoBaseDag EXCEPT !.raised = cleanup.raised]
      ELSE [raised |-> "none",
            dag_name |-> dag_name,
            dag_is_retry |-> bool(is_retry.value),
            dag_is_run |-> bool(is_run.value),
            dag_enable_monitoring_cleanup |-> bool(cleanup.value),
            monitoring_dataset |->
              Variable_get(variables,
                           prefixed(dag_name, "monitoring_dataset"),
                           PyStr(_DEFAULT_MONITORING_DATASET_ID))]

\* no DAG
NoDag == [dag_id |-> "", tasks |-> <<>>, upstream |-> {}]

\* BaseDag._initialize_dag: a new DAG without tasks
_initialize_dag(self) ==
  [dag_id |-> self.dag_name, tasks |-> <<>>, upstream |-> {}]

\* a task: its id, what it is, and the dataset its input hook reads
Task(task_id, kind, dataset_id) ==
  [task_id |-> task_id, kind |-> kind, dataset_id |-> dataset_id]

\* an operator constructed with dag=main_dag is appended to the DAG's tasks
attach(main_dag, task) == [main_dag EXCEPT !.tasks = Append(@, task)]

\* variant: the dependency is set the other way round
set_upstream_reversed(main_dag, task_id, upstream_id) ==
  [main_dag EXCEPT !.upstream = @ \cup {<<task_id, upstream_id>>}]

\* "run_task.set_upstream(retry_task)"
set_upstream(main_dag, task_id, upstream_id) ==
  [main_dag EXCEPT !.upstream = @ \cup {<<upstream_id, task_id>>}]

\* "cleanup_task >> retry_task": the left task is upstream of the right one
rshift(main_dag, left_id, right_id) ==
  [main_dag EXCEPT !.upstream = @ \cup {<<left_id, right_id>>}]

\* variant: the retry flag does not change the task id
get_task_id_same_suffix(name, is_retry_task) == name \o "_task"

\* BaseDag.get_task_id
get_task_id(name, is_retry_task) ==
  IF is_retry_task THEN name \o "_retry_task" ELSE name \o "_task"

\* where create_task gets bq_dataset_id from:
\* BigQueryToAdsUACDag: variable.Variable.get('bq_dataset_id', '')
\* BigQueryToAdsOCDagV2: self.get_variable_value(_DAG_NAME, 'bq_dataset_id')
create_task_bq_dataset_id(self, variables) ==
  IF self.dag_name = "tcrm_bq_to_ads_uac"
  THEN Returned(Variable_get(variables, "bq_dataset_id", PyStr("")))
  ELSE get_variable_value(variables, self.dag_name, "bq_dataset_id", "str",
                          PyStr(""), PyNone)

\* the ways the construction of an operator can go: it returns, it raises
\* before the operator is attached to the DAG, or it raises after that
CreateTaskOutcomes == {"returns", "raises", "raises_attached"}

\* the result of a constructor called with dag=main_dag: the operator
\* attached to main_dag, or an exception
construct(main_dag, task, how) ==
  IF how = "returns"
  THEN [raised |-> "none", dag |-> attach(main_dag, task), task |-> task]
  ELSE IF how = "raises_attached"
  THEN [raised |-> "Exception", dag |-> attach(main_dag, task), task |-> task]
  ELSE [raised |-> "Exception", dag |-> main_dag, task |-> task]

\* no task was created
NoTask == Task("", "none", PyNone)

\* the operator create_task constructs once bq_dataset_id is read
create_task_operator(self, main_dag, is_retry_task, how, dataset) ==
  IF dataset.raised # "none"
  THEN [raised |-> dataset.raised, dag |-> main_dag, task |-> NoTask]
  ELSE construct(main_dag,
                 Task(get_task_id(task_name(self.dag_name), is_retry_task),
                      IF is_retry_task THEN "retry" ELSE "run",
                      dataset.value),
                 how)

\* create_task(main_dag, is_retry) of the DAG class: the operator attached
\* to main_dag, or an exception
create_task(self, variables, main_dag, is_retry_task, how) ==
  create_task_operator(self, main_dag, is_retry_task, how,
                       create_task_bq_dataset_id(self, variables))

\* "except Exception as e: raise errors.DAGError(...) from e"
raise_DAGError_from(created) ==
  IF created.raised = "none" THEN created
  ELSE [created EXCEPT !.raised = "DAGError"]

\* variant: the exception of create_task is passed on as it is
_try_create_task_unwrapped(self, variables, main_dag, is_retry_task, how) ==
  create_task(self, variables, main_dag, is_retry_task, how)

\* BaseDag._try_create_task: any Exception of create_task becomes a DAGError
_try_create_task(self, variables, main_dag, is_retry_task, how) ==
  raise_DAGError_from(create_task(self, variables, main_dag, is_retry_task,
                                  how))

\* BaseDag._create_cleanup_task: MonitoringCleanupOperator(task_id='cleanup',
\* ..., dag=main_dag), or the exception of its constructor
_create_cleanup_task(self, main_dag, how) ==
  construct(main_dag, Task("cleanup", "cleanup", PyNone), how)

\* create_error_report_task: ErrorReportOperator(task_id=
\* 'configuration_error', dag=error_report_dag)
create_error_report_task(error_report_dag) ==
  attach(error_report_dag, Task("configuration_error", "error", PyNone))

\* "if self.dag_is_retry: cleanup_task >> retry_task
\*  else: cleanup_task >> run_task"
create_dag_cleanup_wired(self, retry, run, cleanup) ==
  IF cleanup.raised # "none"
  THEN [raised |-> cleanup.raised, dag |-> cleanup.dag]
  ELSE [raised |-> "none",
        dag |-> rshift(cleanup.dag, cleanup.task.task_id,
                       IF self.dag_is_retry THEN retry.task.task_id
                       ELSE run.task.task_id)]

\* "if self.dag_enable_monitoring_cleanup:
\*    cleanup_task = self._create_cleanup_task(main_dag=main_dag)"
create_dag_cleanup(self, how, retry, run, main_dag) ==
  IF ~self.dag_enable_monitoring_cleanup
  THEN [raised |-> "none", dag |-> main_dag]
  ELSE create_dag_cleanup_wired(self, retry, run,
         _create_cleanup_task(self, main_dag, how.cleanup))

\* "if self.dag_is_retry: run_task.set_upstream(retry_task)"
create_dag_run_wired(self, how, retry, run) ==
  IF run.raised # "none"
  THEN [raised |-> run.raised, dag |-> run.dag]
  ELSE create_dag_cleanup(self, how, retry, run,
         IF self.dag_is_retry
         THEN set_upstream(run.dag, run.task.task_id, retry.task.task_id)
         ELSE run.dag)

\* variant: the cleanup task is created whether or not there is a run task
create_dag_run_cleanup_always(self, variables, how, retry) ==
  IF retry.raised # "none"
  THEN [raised |-> retry.raised, dag |-> retry.dag]
  ELSE IF ~self.dag_is_run
  THEN create_dag_cleanup(self, how, retry, retry, retry.dag)
  ELSE create_dag_run_wired(self, how, retry,
         _try_create_task(self, variables, retry.dag, FALSE, how.run))

\* "if self.dag_is_run:
\*    run_task = self._try_create_task(main_dag=main_dag, is_retry=False)"
create_dag_run(self, variables, how, retry) ==
  IF retry.raised # "none" \/ ~self.dag_is_run
  THEN [raised |-> retry.raised, dag |-> retry.dag]
  ELSE create_dag_run_wired(self, how, retry,
         _try_create_task(self, variables, retry.dag, FALSE, how.run))

\* "if self.dag_is_retry:
\*    retry_task = self._try_create_task(main_dag=main_dag, is_retry=True)"
create_dag_retry(self, variables, how, main_dag) ==
  IF self.dag_is_retry
  THEN _try_create_task(self, variables, main_dag, TRUE, how.retry)
  ELSE [raised |-> "none", dag |-> main_dag, task |-> NoTask]

\* the try block of create_dag: the DAG built so far and the exception that
\* ended the block, if any
create_dag_try(self, variables, how) ==
  create_dag_run(self, variables, how,
                 create_dag_retry(self, variables, how,
                                  _initialize_dag(self)))

\* variant: the error task is attached to the DAG built so far
error_report_dag_kept(self, failed_dag) ==
  create_error_report_task(failed_dag)

\* "except errors.DAGError: main_dag = self._initialize_dag();
\*  create_error_report_task(error_report_dag=main_dag, error=error)"
error_report_dag(self, failed_dag) ==
  create_error_report_task(_initialize_dag(self))

\* what create_dag returns after its try block: the DAG, the error report
\* DAG after a DAGError, or any other exception passed on
create_dag_return(self, tried) ==
  IF tried.raised = "none"
  THEN [raised |-> "none", dag |-> tried.dag]
  ELSE IF tried.raised = "DAGError"
  THEN [raised |-> "none", dag |-> error_report_dag(self, tried.dag)]
  ELSE [raised |-> tried.raised, dag |-> NoDag]

\* BaseDag.create_dag: the DAG returned, or the exception passed on
create_dag(self, variables, how) ==
  create_dag_return(self, create_dag_try(self, variables, how))

\* the ids of the tasks of a DAG, in the order of dag.tasks
TaskIds(dag) == [i \in 1 .. Len(dag.tasks) |-> dag.tasks[i].task_id]

\* the tasks upstream of a task
Upstream(dag, task_id) == {e[1] : e \in {u \in dag.upstream : u[2] = task_id}}

(***************************************************************************)
(* BaseDataConnectorOperator.execute, step by step.                        *)
(***************************************************************************)
\* variant: the retry option is ignored and the source reader always feeds
\* the loop
blob_generator_kind_reader_only(retry) == "reader"

\* "if self.is_retry: ... else: ...": which generator feeds the loop
blob_generator_kind(retry) == IF retry THEN "replay" ELSE "reader"

\* variant: the reader is not handed the processed ranges
reader_excluded_none(ranges) == {}

\* "processed_blobs_generator = monitor.generate_processed_blobs_ranges()"
\* handed to input_hook.events_blobs_generator
reader_excluded(ranges) == generate_processed_blobs_ranges(ranges, Location)

\* variant: the blob returned by send_events is dropped
execute_send_events_result_dropped(b, outcome) == b

\* "blb = self.output_hook.send_events(blb)"
execute_send_events(b, outcome) == send_events(b, outcome)

\* variant: the connection id is not checked
missing_monitoring_parameters_conn_unchecked(enable, dataset, table, conn_id) ==
  enable /\ (dataset = "" \/ table = "")

\* variant: the parameters are checked whatever the option says
missing_monitoring_parameters_always(enable, dataset, table, conn_id) ==
  dataset = "" \/ table = "" \/ conn_id = ""

\* "if enable_monitoring and not all([monitoring_dataset, monitoring_table,
\*  monitoring_bq_conn_id]): raise errors.MonitoringValueError(...)"
missing_monitoring_parameters(enable, dataset, table, conn_id) ==
  enable /\ (dataset = "" \/ table = "" \/ conn_id = "")

\* MonitorTask.__init__: the task, or the error it raises
MonitorTask_init(dataset, table, conn_id, enable) ==
  IF missing_monitoring_parameters(enable, dataset, table, conn_id)
  THEN "MonitoringValueError"
  ELSE "constructed"

\* monitoring.MonitoringHook(bq_conn_id=..., enable_monitoring=...,
\* monitoring_dataset=..., monitoring_table=...) at the start of execute
\* fails on the same parameters
MonitoringHook_init_raises(conn_id, enable, dataset, table) ==
  missing_monitoring_parameters(enable, dataset, table, conn_id)

\* variant: the store calls are never made
records_outcome_never(monitoring) == FALSE

\* variant: the store calls are made whatever the option says
records_outcome_always(monitoring) == TRUE

\* "if self.enable_monitoring:" guards both store calls
records_outcome(monitoring) == monitoring

\* variant: the loop body runs for every blob, empty or not
loop_body_runs_always(b) == TRUE

\* "if blb:" guards the loop body
loop_body_runs(b) == BlobIsNonEmpty(b)

\* variant: the loop also ends after a blob that has failed events
for_loop_ends_on_failure(exhausted, b) == exhausted \/ b.failed_events # <<>>

\* "for blb in blob_generator:" ends when the generator is exhausted,
\* whatever the outcome of the blob handled last
for_loop_ends(exhausted, b) == exhausted

\* variant: num_rows is taken from the failed events
store_blob_args_failed_count(b) ==
  [location |-> b.location, position |-> b.position,
   num_rows |-> Len(b.failed_events)]

\* variant: the position is left at its default
store_blob_args_position_omitted(b) ==
  [location |-> b.location, position |-> 0, num_rows |-> b.num_rows]

\* variant: position and num_rows are swapped
store_blob_args_swapped(b) ==
  [location |-> b.location, position |-> b.num_rows, num_rows |-> b.position]

\* the arguments of monitor.store_blob(location=blb.location,
\*   position=blb.position, num_rows=blb.num_rows)
store_blob_args(b) ==
  [location |-> b.location, position |-> b.position, num_rows |-> b.num_rows]

\* variant: the failed events are not handed to the store
store_events_args_no_events(b) ==
  [location |-> b.location, id_event_error_tuple_list |-> <<>>]

\* the arguments of monitor.store_events(location=blb.location,
\*   id_event_error_tuple_list=blb.failed_events)
store_events_args(b) ==
  [location |-> b.location, id_event_error_tuple_list |-> b.failed_events]

\* variant: the reports are returned whatever the option says
execute_return_always(flag, collected) ==
  [returned |-> TRUE, reports |-> collected]

\* "if self.return_report: return reports"
execute_return(flag, collected) ==
  IF flag THEN [returned |-> TRUE, reports |-> collected]
  ELSE [returned |-> FALSE, reports |-> <<>>]

(***************************************************************************)
(* GoogleAdsHook of ads_hook_v2, as its tests drive it                     *)
(* (src/src/test/hooks/ads_hook_v2_test.py): every API request is an HTTP  *)
(* call that follows a call of the token endpoint.                         *)
(***************************************************************************)
\* number of payloads handed to the hook
MaxPayloads == 2
\* number of responses other than 200 that the API gives during one call
MaxFaults == 3

\* the attempts made at one request when the transport fails
RequestAttempts == 3

\* the responses of an API endpoint: a 200 with the failed indices of a
\* partial failure, _MOCK_400_BAD_REQUEST, _MOCK_401_UNAUTHORIZED (token
\* expired), _MOCK_401_UNAUTHORIZED_2, a body that is not JSON, or
\* requests.ConnectTimeout
ApiResponses(n) ==
  {[status |-> st, failures |-> <<>>] :
     st \in {"400", "401_expired", "401_other", "bad_json", "timeout"}}
  \cup
  {[status |-> "200", failures |-> f] :
     f \in UNION {[S -> {"internalError", "otherError"}] :
                     S \in SUBSET (0 .. (n - 1))}}

\* the error code reported for a failed payload
PartialFailureCode(kind) ==
  IF kind = "internalError" THEN "RETRIABLE_ERROR_EVENT_NOT_SENT"
  ELSE "NON_RETRIABLE_ERROR_EVENT_NOT_SENT"

\* the (index, error code) list upload_click_conversions returns
index_error(failures, n) ==
  LET idx == IndicesFrom(DOMAIN failures, 0, n)
  IN  [k \in 1 .. Len(idx) |-> <<idx[k], PartialFailureCode(failures[idx[k]])>>]

\* the hook before a call
NoAds ==
  [op |-> "none", pc |-> "idle", step |-> "none", calls |-> <<>>,
   attempts |-> 0, refreshed |-> FALSE, raised |-> "none", value |-> <<>>,
   payloads |-> 0, user_list_name |-> "", create_new_list |-> FALSE,
   list_exists |-> FALSE, lists_created |-> 0, jobs_created |-> 0,
   members_added |-> 0, jobs_run |-> 0]

\* the call ends with an exception
ads_raise(a, error) == [a EXCEPT !.pc = "done", !.raised = error]

\* the call ends and returns
ads_return(a, value) == [a EXCEPT !.pc = "done", !.value = value]

\* the next request of the call
ads_next_request(a, step) ==
  [a EXCEPT !.step = step, !.attempts = 0, !.refreshed = FALSE]

\* variant: a fourth attempt is made
retry_allowed_once_more(attempts) == attempts < RequestAttempts + 1

\* a request that met a transport error is sent again
retry_allowed(attempts) == attempts < RequestAttempts

\* variant: a 400 is handled as an expired token
token_expired_or_bad_request(status) == status \in {"401_expired", "400"}

\* variant: no response is taken for an expired token
token_expired_never(status) == FALSE

\* the response says that the access token expired
token_expired(status) == status = "401_expired"

\* variant: the list is created whatever create_new_list says
creates_list_always(create_new_list) == TRUE

\* a list that the search did not find is created
creates_list(create_new_list) == create_new_list

\* what a 200 response leads to, request by request
on_success(a, response) ==
  IF a.step = "upload"
  THEN ads_return(a, index_error(response.failures, a.payloads))
  ELSE IF a.step = "search_list"
  THEN IF a.list_exists THEN ads_next_request(a, "create_job")
       ELSE IF creates_list(a.create_new_list)
       THEN ads_next_request(a, "create_list")
       ELSE ads_raise(a, "DataOutConnectorValueError")
  ELSE IF a.step = "create_list"
  THEN ads_next_request([a EXCEPT !.lists_created = @ + 1,
                                  !.list_exists = TRUE], "create_job")
  ELSE IF a.step = "create_job"
  THEN ads_next_request([a EXCEPT !.jobs_created = @ + 1], "add_operations")
  ELSE IF a.step = "add_operations"
  THEN ads_next_request([a EXCEPT !.members_added = a.payloads], "run_job")
  ELSE IF a.step = "run_job"
  THEN ads_next_request([a EXCEPT !.jobs_run = @ + 1], "job_status")
  ELSE ads_return(a, <<>>)

\* what the hook does with the response of an API request
on_response(a, response) ==
  IF response.status = "timeout"
  THEN IF retry_allowed(a.attempts) THEN a
       ELSE ads_raise(a, "DataOutConnectorSendUnsuccessfulError")
  ELSE IF token_expired(response.status)
  THEN IF a.refreshed
       THEN ads_raise(a, "DataOutConnectorAuthenticationError")
       ELSE [a EXCEPT !.pc = "token", !.refreshed = TRUE, !.attempts = 0]
  ELSE IF response.status = "401_other"
  THEN ads_raise(a, "DataOutConnectorAuthenticationError")
  ELSE IF response.status \in {"400", "bad_json"}
  THEN ads_raise(a, "DataOutConnectorError")
  ELSE on_success(a, response)

\* the responses of a call that were not a 200
Faults(calls) ==
  Cardinality({k \in 1 .. Len(calls) : calls[k].response.status # "200"})

\* the hook sends the request of its current step and gets a response
send_request(a, response) ==
  on_response([a EXCEPT !.calls = Append(@, [url |-> a.step,
                                             response |-> response]),
                        !.attempts = @ + 1],
              response)

VARIABLES
  enable_monitoring,  \* operator option: checkpoint store calls are made
  return_report,      \* operator option: the run returns the reports
  is_retry,           \* operator option of the current run: replay mode
  pc,                 \* position of the run in execute
  blob_source,        \* state of the run's blob generator
  blb,                \* the loop variable of execute
  reports,            \* the reports collected by the run
  result,             \* what the run returned
  processedRanges,    \* checkpoint store: ProcessedRange rows
  failedRecords,      \* checkpoint store: outstanding FailedEventRecord rows
  runs,               \* number of runs started
  outcome,            \* history: what the upload call did for blb
  written,            \* history: rows this run wrote for blb
  run_ranges,         \* history: ranges of the blobs this run has sent
  run_failed,         \* history: records this run sent that failed
  run_delivered,      \* history: records this run sent that the sink accepted
  abortedAt,          \* history: where the run was when it aborted
  sentEver,           \* history: source positions sent by normal runs so far
  monitoring_dataset, \* operator option: dataset of the monitoring table
  monitoring_table,   \* operator option: name of the monitoring table
  monitoring_bq_conn_id, \* operator option: connection of the monitoring table
  monitor_task,       \* the MonitorTask of the task group, once constructed
  airflow_variables,  \* the Airflow variables, by name
  base_dag,           \* the BaseDag object (self)
  main_dag,           \* the DAG create_dag returned
  dag_pc,             \* how far the construction of the DAG has got
  create_how,         \* history: how the operator constructors went
  task_state,         \* the scheduler's view of the tasks of main_dag
  lookup,             \* a call of get_variable_value and what it gave
  ads,                \* a call of the GoogleAdsHook and its HTTP calls
  group,              \* the runs of the fetch_data/send_events/monitor group
  retention,          \* the monitoring table under the cleanup task
  concurrent          \* two runs of the operator executing at the same time

vars == <<enable_monitoring, return_report, is_retry, pc, blob_source, blb,
          reports, result, processedRanges, failedRecords, runs, outcome,
          written, run_ranges, run_failed, run_delivered, abortedAt, sentEver,
          monitoring_dataset, monitoring_table, monitoring_bq_conn_id,
          monitor_task, airflow_variables, base_dag, main_dag, dag_pc,
          create_how, task_state, lookup, ads, group, retention, concurrent>>

\* the variables of the operator runs and of the DAG construction
pipeline_vars ==
  <<enable_monitoring, return_report, is_retry, pc, blob_source, blb,
    reports, result, processedRanges, failedRecords, runs, outcome,
    written, run_ranges, run_failed, run_delivered, abortedAt, sentEver,
    monitoring_dataset, monitoring_table, monitoring_bq_conn_id,
    monitor_task, airflow_variables, base_dag, main_dag, dag_pc,
    create_how, task_state>>

\* the variables of the parts of the program checked on their own
extras == <<lookup, ads, group, retention, concurrent>>

\* the monitoring parameters of the operator and the task built from them
monitoring_config ==
  <<monitoring_dataset, monitoring_table, monitoring_bq_conn_id, monitor_task>>

\* the DAG the operator belongs to
dag_vars ==
  <<airflow_variables, base_dag, main_dag, dag_pc, create_how, task_state>>

\* what a run of execute leaves alone: the options of the operator and the
\* DAG it belongs to
config ==
  <<enable_monitoring, return_report, monitoring_config, dag_vars, extras>>
store == <<processedRanges, failedRecords>>
run_history == <<run_ranges, run_failed, run_delivered>>

NoSource ==
  [kind |-> "none", cursor |-> 0, excluded |-> {}, queue |-> <<>>,
   sentinel |-> FALSE]

NoResult == [returned |-> FALSE, reports |-> <<>>]

NoOutcome == [kind |-> "none", failures |-> <<>>]

NoTaskState == [started |-> {}, succeeded |-> {}, failed |-> {}]

AllReturn == [retry |-> "returns", run |-> "returns", cleanup |-> "returns"]

\* no call of get_variable_value
NoLookup ==
  [pc |-> "none", prefix |-> "", name |-> "", expected_type |-> "str",
   fallback |-> PyNone, flag |-> PyNone, result |-> Returned(PyNone),
   reads |-> <<>>]

\* the task group before its first run: the monitoring table is empty
NoGroup ==
  [pc |-> "idle", has_monitor |-> FALSE, enable_monitoring |-> TRUE,
   is_retry |-> FALSE, runs |-> 0, ranges |-> {}, failures |-> {},
   xcom_fetch_data |-> <<>>, xcom_send_events |-> <<>>, next |-> 1,
   reports |-> <<>>, failed_task |-> "none",
   sent |-> <<>>, accepted |-> {}, resent |-> {}]

\* the monitoring table before any cleanup: no rows, day 0
NoRetention ==
  [pc |-> "idle", now |-> 0, rows |-> {}, cutoff |-> 0, pruned_at |-> 0,
   before |-> {}, ever |-> {}, deleted |-> {}, writes |-> 0]

\* a run of execute that has not started
NoRun ==
  [pc |-> "idle", is_retry |-> FALSE, blob_source |-> NoSource,
   blb |-> NoBlob, recorded |-> {}, sent |-> {}]

\* two runs of one operator on one monitoring table, none started
NoConcurrent ==
  [ranges |-> {}, failures |-> {}, run |-> [i \in {1, 2} |-> NoRun]]

\* the parts checked on their own are at rest
NoExtras ==
  /\ lookup = NoLookup
  /\ ads = NoAds
  /\ group = NoGroup
  /\ retention = NoRetention
  /\ concurrent = NoConcurrent

\* no DAG is being built
NoDagBuilt ==
  /\ airflow_variables = <<>>
  /\ base_dag = NoBaseDag
  /\ main_dag = NoDag
  /\ dag_pc = "none"
  /\ create_how = AllReturn
  /\ task_state = NoTaskState

\* the monitoring parameters as BaseDag reads them when no variable is set
MonitoringDefaults ==
  /\ monitoring_dataset = _DEFAULT_MONITORING_DATASET_ID
  /\ monitoring_table = _DEFAULT_MONITORING_TABLE_ID
  /\ monitoring_bq_conn_id = _MONITORING_BQ_CONN_ID
  /\ monitor_task = "none"

\* no run of execute has started
InitRun ==
  /\ is_retry = FALSE
  /\ pc = "idle"
  /\ blob_source = NoSource
  /\ blb = NoBlob
  /\ reports = <<>>
  /\ result = NoResult
  /\ processedRanges = {}
  /\ failedRecords = {}
  /\ runs = 0
  /\ outcome = NoOutcome
  /\ written = <<>>
  /\ run_ranges = {}
  /\ run_failed = {}
  /\ run_delivered = {}
  /\ abortedAt = "none"
  /\ sentEver = {}

Init ==
  /\ enable_monitoring \in BOOLEAN
  /\ return_report \in BOOLEAN
  /\ MonitoringDefaults
  /\ NoDagBuilt
  /\ NoExtras
  /\ InitRun

InRun == pc \in {"fetch", "send", "store_blob", "store_events"}

\* execute up to "reports = []": the monitoring hook is created and the blob
\* generator is chosen
BeginRun(retry) ==
  /\ ~InRun
  /\ runs < MaxRuns
  /\ ~MonitoringHook_init_raises(monitoring_bq_conn_id, enable_monitoring,
                                 monitoring_dataset, monitoring_table)
  /\ runs' = runs + 1
  /\ is_retry' = retry
  /\ blob_source' =
       IF blob_generator_kind(retry) = "replay"
       THEN [NoSource EXCEPT !.kind = "replay",
               !.queue = replay_failed(failedRecords, Location)]
       ELSE [NoSource EXCEPT !.kind = "reader",
               !.excluded = reader_excluded(processedRanges)]
  /\ blb' = NoBlob
  /\ reports' = <<>>
  /\ result' = NoResult
  /\ outcome' = NoOutcome
  /\ written' = <<>>
  /\ run_ranges' = {}
  /\ run_failed' = {}
  /\ run_delivered' = {}
  /\ abortedAt' = "none"
  /\ pc' = "fetch"
  /\ UNCHANGED <<config, store, sentEver>>

BeginRetryRun == BeginRun(TRUE)

BeginNormalRun == BeginRun(FALSE)

\* "for blb in blob_generator: if blb:" with a non-empty blob
PullBlob ==
  /\ pc = "fetch"
  /\ \/ /\ blob_source.kind = "reader"
        /\ LET p == NextUncovered(blob_source.cursor, blob_source.excluded)
           IN  \E k \in 1 .. MaxBlobRows :
                 /\ ReadablePage(p, k, blob_source.excluded)
                 /\ blb' = SourceBlob(p, k)
                 /\ blob_source' = [blob_source EXCEPT !.cursor = p + k]
     \/ /\ blob_source.kind = "replay"
        /\ \E k \in 1 .. MaxBlobRows :
             /\ ContiguousPrefix(blob_source.queue, k)
             /\ blb' = ReplayBlob(blob_source.queue, k)
             /\ blob_source' =
                  [blob_source EXCEPT
                     !.queue = SubSeq(blob_source.queue, k + 1,
                                      Len(blob_source.queue))]
  /\ BlobIsNonEmpty(blb')
  /\ outcome' = NoOutcome
  /\ written' = <<>>
  /\ pc' = IF loop_body_runs(blb') THEN "send" ELSE "fetch"
  /\ UNCHANGED <<config, is_retry, reports, result, store, runs, run_history,
                 abortedAt, sentEver>>

\* "for blb in blob_generator: if blb:" with an empty (sentinel) blob
SkipEmptyBlob ==
  /\ pc = "fetch"
  /\ ~blob_source.sentinel
  /\ blb' = Blob(<<>>, Location, 0)
  /\ ~BlobIsNonEmpty(blb')
  /\ blob_source' = [blob_source EXCEPT !.sentinel = TRUE]
  /\ outcome' = NoOutcome
  /\ written' = <<>>
  /\ pc' = IF loop_body_runs(blb') THEN "send" ELSE "fetch"
  /\ UNCHANGED <<config, is_retry, reports, result, store, runs,
                 run_history, abortedAt, sentEver>>

\* the generator is exhausted
SourceExhausted ==
  IF blob_source.kind = "reader"
  THEN NextUncovered(blob_source.cursor, blob_source.excluded) >= SourceLen
  ELSE blob_source.queue = <<>>

\* the loop ends: "if self.return_report: return reports"
FinishRun ==
  /\ pc = "fetch"
  /\ for_loop_ends(SourceExhausted, blb)
  /\ result' = execute_return(return_report, reports)
  /\ pc' = "done"
  /\ UNCHANGED <<config, is_retry, blob_source, blb, reports, store, runs,
                 outcome, written, run_history, abortedAt, sentEver>>

\* the records of a blob at a set of indices, as (location, position, payload)
RecordsAt(b, indices) ==
  {[location |-> b.location, position |-> b.position + i,
    payload |-> b.events[i + 1]] : i \in indices}

\* "blb = self.output_hook.send_events(blb); reports.append(blb.reports)"
SendEvents ==
  /\ pc = "send"
  /\ \E o \in UploadOutcomes(Len(blb.events)) :
       /\ outcome' = o
       /\ blb' = execute_send_events(blb, o)
       /\ run_delivered' =
            run_delivered \cup RecordsAt(blb, AcceptedIndices(blb, o))
       /\ run_failed' =
            run_failed \cup
            RecordsAt(blb, (0 .. (Len(blb.events) - 1))
                             \ AcceptedIndices(blb, o))
  /\ reports' = Append(reports, blb'.reports)
  /\ run_ranges' =
       run_ranges \cup
       {ProcessedRange(blb.location, blb.position, blb.num_rows)}
  /\ sentEver' = IF is_retry THEN sentEver
                 ELSE sentEver \cup BlobPositions(blb)
  /\ pc' = IF records_outcome(enable_monitoring) THEN "store_blob" ELSE "fetch"
  /\ UNCHANGED <<config, is_retry, blob_source, result, store, runs, written,
                 abortedAt>>

\* "monitor.store_blob(...)"
StoreBlob ==
  /\ pc = "store_blob"
  /\ LET a == store_blob_args(blb)
     IN  /\ processedRanges' =
              store_blob_ranges(processedRanges, a.location, a.position,
                                a.num_rows)
         /\ failedRecords' =
              store_blob_failures(failedRecords, a.location, a.position,
                                  a.num_rows)
         /\ written' =
              Append(written,
                     [type |-> "range",
                      row |-> ProcessedRange(a.location, a.position,
                                             a.num_rows)])
  /\ pc' = "store_events"
  /\ UNCHANGED <<config, is_retry, blob_source, blb, reports, result, runs,
                 outcome, run_history, abortedAt, sentEver>>

\* "monitor.store_events(...)"
StoreEvents ==
  /\ pc = "store_events"
  /\ LET a == store_events_args(blb)
     IN  /\ failedRecords' =
              store_events(failedRecords, a.location,
                           a.id_event_error_tuple_list)
         /\ written' =
              written \o
              [i \in 1 .. Len(a.id_event_error_tuple_list) |->
                 [type |-> "failure",
                  row |-> FailedEventRecord(a.location,
                                            a.id_event_error_tuple_list[i])]]
  /\ pc' = "fetch"
  /\ UNCHANGED <<config, is_retry, blob_source, blb, reports, result,
                 processedRanges, runs, outcome, run_history, abortedAt,
                 sentEver>>

\* an exception propagates out of execute (reader, store or sink call), or
\* the run is cancelled: execute has no handler
Abort ==
  /\ InRun
  /\ abortedAt' = pc
  /\ pc' = "fatal"
  /\ UNCHANGED <<config, is_retry, blob_source, blb, reports, result, store,
                 runs, outcome, written, run_history, sentEver>>

\* execute fails where it creates the monitoring hook, before the blob
\* generator is chosen
ConfigurationError ==
  /\ ~InRun
  /\ runs < MaxRuns
  /\ MonitoringHook_init_raises(monitoring_bq_conn_id, enable_monitoring,
                                monitoring_dataset, monitoring_table)
  /\ runs' = runs + 1
  /\ \E retry \in BOOLEAN : is_retry' = retry
  /\ blob_source' = NoSource
  /\ blb' = NoBlob
  /\ reports' = <<>>
  /\ result' = NoResult
  /\ outcome' = NoOutcome
  /\ written' = <<>>
  /\ run_ranges' = {}
  /\ run_failed' = {}
  /\ run_delivered' = {}
  /\ abortedAt' = "construct"
  /\ pc' = "fatal"
  /\ UNCHANGED <<config, store, sentEver>>

\* the task group constructs its MonitorTask
ConstructMonitorTask ==
  /\ monitor_task = "none"
  /\ pc = "idle"
  /\ monitor_task' =
       MonitorTask_init(monitoring_dataset, monitoring_table,
                        monitoring_bq_conn_id, enable_monitoring)
  /\ UNCHANGED <<enable_monitoring, return_report, monitoring_dataset,
                 monitoring_table, monitoring_bq_conn_id, dag_vars, is_retry,
                 pc, blob_source, blb, reports, result, store, runs, outcome,
                 written, run_history, abortedAt, sentEver, extras>>

Next ==
  \/ BeginRetryRun
  \/ BeginNormalRun
  \/ PullBlob
  \/ SkipEmptyBlob
  \/ FinishRun
  \/ SendEvents
  \/ StoreBlob
  \/ StoreEvents
  \/ Abort

Spec == Init /\ [][Next]_vars

\* runs in normal mode only, over the fixed source
NextNormal ==
  \/ BeginNormalRun
  \/ PullBlob
  \/ SkipEmptyBlob
  \/ FinishRun
  \/ SendEvents
  \/ StoreBlob
  \/ StoreEvents
  \/ Abort

SpecNormal == Init /\ [][NextNormal]_vars

\* the values a monitoring parameter is given: empty, or its default
InitConfig ==
  /\ enable_monitoring \in BOOLEAN
  /\ return_report = FALSE
  /\ monitoring_dataset \in {"", _DEFAULT_MONITORING_DATASET_ID}
  /\ monitoring_table \in {"", _DEFAULT_MONITORING_TABLE_ID}
  /\ monitoring_bq_conn_id \in {"", _MONITORING_BQ_CONN_ID}
  /\ monitor_task = "none"
  /\ NoDagBuilt
  /\ NoExtras
  /\ InitRun

\* runs of operators, and task groups, built with any monitoring parameters
NextConfig ==
  \/ ConstructMonitorTask
  \/ ConfigurationError
  \/ BeginRetryRun
  \/ BeginNormalRun
  \/ PullBlob
  \/ SkipEmptyBlob
  \/ FinishRun
  \/ SendEvents
  \/ StoreBlob
  \/ StoreEvents
  \/ Abort

SpecConfig == InitConfig /\ [][NextConfig]_vars

(***************************************************************************)
(* Building a DAG from the Airflow variables and running its tasks.        *)
(***************************************************************************)
\* the variables of a pipeline: the DAG options under the prefixed name,
\* the dataset names under the prefixed and the unprefixed name
PipelineVariables(prefix, retry, run, cleanup, pm, gm, pd, gd) ==
  (prefixed(prefix, "is_retry") :> retry)
  @@ (prefixed(prefix, "is_run") :> run)
  @@ (prefixed(prefix, "enable_monitoring_cleanup") :> cleanup)
  @@ (prefixed(prefix, "monitoring_dataset") :> pm)
  @@ ("monitoring_dataset" :> gm)
  @@ (prefixed(prefix, "bq_dataset_id") :> pd)
  @@ ("bq_dataset_id" :> gd)

\* the values a flag variable is given
FlagValues == {NotSet, PyStr("0"), PyStr("1")}

InitDag ==
  /\ enable_monitoring = TRUE
  /\ return_report = FALSE
  /\ MonitoringDefaults
  /\ NoExtras
  /\ InitRun
  /\ \E prefix \in DagNames :
     \E retry \in FlagValues \cup {PyStr("yes")} :
     \E run \in FlagValues :
     \E cleanup \in FlagValues :
     \E pm \in {NotSet, PyStr("prefix_test_monitoring_dataset")} :
     \E gm \in {NotSet, PyStr("test_monitoring_dataset")} :
     \E pd \in {NotSet, PyStr("prefix_test_dataset")} :
     \E gd \in {NotSet, PyStr("test_dataset")} :
       airflow_variables =
         PipelineVariables(prefix, retry, run, cleanup, pm, gm, pd, gd)
  /\ base_dag = NoBaseDag
  /\ main_dag = NoDag
  /\ dag_pc = "variables"
  /\ create_how = AllReturn
  /\ task_state = NoTaskState

\* what the construction and the scheduling of a DAG leave alone
operator_state ==
  <<enable_monitoring, return_report, monitoring_config, is_retry, pc,
    blob_source, blb, reports, result, store, runs, outcome, written,
    run_history, abortedAt, sentEver, extras>>

\* a DAG file constructs its DAG class: BaseDag.__init__
ConstructBaseDag ==
  /\ dag_pc = "variables"
  /\ \E dag_name \in DagNames :
       base_dag' = BaseDag_init(airflow_variables, dag_name)
  /\ dag_pc' = IF base_dag'.raised = "none" THEN "constructed"
               ELSE "init_error"
  /\ UNCHANGED <<operator_state, airflow_variables, main_dag, create_how,
                 task_state>>

\* the constructors create_dag reaches, given how the earlier ones went
ReachedConstructors(self, how) ==
  /\ ~self.dag_is_retry => how.retry = "returns"
  /\ (~self.dag_is_run \/ how.retry # "returns") => how.run = "returns"
  /\ (~self.dag_is_run \/ ~self.dag_enable_monitoring_cleanup
        \/ how.retry # "returns" \/ how.run # "returns")
       => how.cleanup = "returns"

\* the DAG file calls create_dag
CreateDag ==
  /\ dag_pc = "constructed"
  /\ \E how \in [retry : CreateTaskOutcomes, run : CreateTaskOutcomes,
                  cleanup : CreateTaskOutcomes] :
       /\ ReachedConstructors(base_dag, how)
       /\ create_how' = how
       /\ LET created == create_dag(base_dag, airflow_variables, how)
          IN  /\ main_dag' = created.dag
              /\ dag_pc' = IF created.raised = "none" THEN "created"
                           ELSE "create_error"
  /\ UNCHANGED <<operator_state, airflow_variables, base_dag, task_state>>

\* the scheduler starts a task whose upstream tasks have all succeeded
StartTask ==
  /\ dag_pc = "created"
  /\ \E t \in Range(TaskIds(main_dag)) :
       /\ t \notin task_state.started
       /\ Upstream(main_dag, t) \subseteq task_state.succeeded
       /\ task_state' = [task_state EXCEPT !.started = @ \cup {t}]
  /\ UNCHANGED <<operator_state, airflow_variables, base_dag, main_dag,
                 dag_pc, create_how>>

\* a started task ends: the error report task always fails, any other task
\* succeeds or fails
FinishTask ==
  /\ dag_pc = "created"
  /\ \E t \in task_state.started
              \ (task_state.succeeded \cup task_state.failed) :
       \/ /\ t # "configuration_error"
          /\ task_state' = [task_state EXCEPT !.succeeded = @ \cup {t}]
       \/ task_state' = [task_state EXCEPT !.failed = @ \cup {t}]
  /\ UNCHANGED <<operator_state, airflow_variables, base_dag, main_dag,
                 dag_pc, create_how>>

NextDag ==
  \/ ConstructBaseDag
  \/ CreateDag
  \/ StartTask
  \/ FinishTask

SpecDag == InitDag /\ [][NextDag]_vars

(***************************************************************************)
(* BaseDag.get_variable_value on its own: a DAG class asks for one option  *)
(* of its pipeline.                                                        *)
(***************************************************************************)
\* the option asked for, as GCSToAdsCMDagV2.create_task asks for its options
LookupPrefix == "tcrm_gcs_to_ads_cm_v2"
LookupName == "ads_cm_create_list"

\* the variables of the pipeline: the option under its prefixed and its
\* unprefixed name
LookupVariables(own, global) ==
  (prefixed(LookupPrefix, LookupName) :> own) @@ (LookupName :> global)

InitLookup ==
  /\ enable_monitoring = TRUE
  /\ return_report = FALSE
  /\ MonitoringDefaults
  /\ InitRun
  /\ base_dag = NoBaseDag
  /\ main_dag = NoDag
  /\ dag_pc = "none"
  /\ create_how = AllReturn
  /\ task_state = NoTaskState
  /\ \E own \in {NotSet, PyStr(""), PyStr("False"), PyStr("True"),
                  PyStr("4"), PyStr("four")} :
     \E global \in {NotSet, PyStr("True"), PyStr("8"), PyStr("eight")} :
       airflow_variables = LookupVariables(own, global)
  /\ ads = NoAds
  /\ group = NoGroup
  /\ retention = NoRetention
  /\ concurrent = NoConcurrent
  /\ \E expected_type \in {"str", "int", "bool"} :
     \E fallback \in {PyNone, PyStr(""), PyInt(8), PyBool(TRUE)} :
     \E flag \in {PyNone, PyStr("")} :
       lookup = [NoLookup EXCEPT !.pc = "call", !.prefix = LookupPrefix,
                                 !.name = LookupName,
                                 !.expected_type = expected_type,
                                 !.fallback = fallback, !.flag = flag]

\* self.get_variable_value(prefix, variable_name, expected_type,
\*   fallback_value, var_not_found_flag)
GetVariableValue ==
  /\ lookup.pc = "call"
  /\ lookup' =
       [lookup EXCEPT
          !.pc = "returned",
          !.result = get_variable_value(airflow_variables, lookup.prefix,
                                        lookup.name, lookup.expected_type,
                                        lookup.fallback, lookup.flag),
          !.reads = get_variable_value_reads(airflow_variables,
                                             lookup.prefix, lookup.name,
                                             lookup.expected_type,
                                             lookup.fallback, lookup.flag)]
  /\ UNCHANGED <<pipeline_vars, ads, group, retention, concurrent>>

NextLookup == GetVariableValue

SpecLookup == InitLookup /\ [][NextLookup]_vars

(***************************************************************************)
(* Calls of the GoogleAdsHook against an API that answers in any way.      *)
(***************************************************************************)
InitAds ==
  /\ enable_monitoring = TRUE
  /\ return_report = FALSE
  /\ MonitoringDefaults
  /\ NoDagBuilt
  /\ NoExtras
  /\ InitRun

\* a caller sets up a call: the payloads, the user list and whether the
\* account already has it
AdsArguments ==
  /\ ads = NoAds
  /\ \E n \in 0 .. MaxPayloads :
     \E user_list_name \in {"", "user_list_name"} :
     \E create_new_list \in BOOLEAN :
     \E list_exists \in BOOLEAN :
       ads' = [NoAds EXCEPT !.pc = "arguments", !.payloads = n,
                            !.user_list_name = user_list_name,
                            !.create_new_list = create_new_list,
                            !.list_exists = list_exists]
  /\ UNCHANGED <<pipeline_vars, lookup, group, retention, concurrent>>

\* hook.upload_click_conversions(customer_id, payloads)
UploadClickConversions ==
  /\ ads.pc = "arguments"
  /\ ads' = [ads EXCEPT !.op = "upload_click_conversions", !.pc = "token",
                        !.step = "upload"]
  /\ UNCHANGED <<pipeline_vars, lookup, group, retention, concurrent>>

\* hook.upload_customer_match_user_list(customer_id, user_list_name,
\*   create_new_list, payloads, upload_key_type): an empty list name is
\* refused before any HTTP call
UploadCustomerMatchUserList ==
  /\ ads.pc = "arguments"
  /\ ads' =
       IF ads.user_list_name = ""
       THEN ads_raise([ads EXCEPT !.op = "upload_customer_match_user_list"],
                      "DataOutConnectorValueError")
       ELSE [ads EXCEPT !.op = "upload_customer_match_user_list",
                        !.pc = "token", !.step = "search_list"]
  /\ UNCHANGED <<pipeline_vars, lookup, group, retention, concurrent>>

\* the hook asks the token endpoint for an access token
RequestToken ==
  /\ ads.pc = "token"
  /\ \E response \in {"200", "401"} :
     LET call == [url |-> "token",
                  response |-> [status |-> response, failures |-> <<>>]]
     IN  ads' =
           IF response = "200"
           THEN [ads EXCEPT !.calls = Append(@, call), !.pc = "request"]
           ELSE ads_raise([ads EXCEPT !.calls = Append(@, call)],
                          "DataOutConnectorError")
  /\ UNCHANGED <<pipeline_vars, lookup, group, retention, concurrent>>

\* the hook sends an API request
SendRequest ==
  /\ ads.pc = "request"
  /\ \E response \in ApiResponses(IF ads.step = "upload" THEN ads.payloads
                                   ELSE 0) :
       /\ response.status # "200" => Faults(ads.calls) < MaxFaults
       /\ ads' = send_request(ads, response)
  /\ UNCHANGED <<pipeline_vars, lookup, group, retention, concurrent>>

NextAds ==
  \/ AdsArguments
  \/ UploadClickConversions
  \/ UploadCustomerMatchUserList
  \/ RequestToken
  \/ SendRequest

SpecAds == InitAds /\ [][NextAds]_vars

(***************************************************************************)
(* The task group of data_connector_taskgroup:                             *)
(* fetch_data >> send_events >> monitor, each task passing its result to   *)
(* the next through XCom.                                                  *)
(***************************************************************************)
\* every blob input_hook.events_blobs_generator yields from the cursor on
RECURSIVE SourceBlobs(_, _, _)
SourceBlobs(cursor, k, excluded) ==
  LET p == NextUncovered(cursor, excluded)
      \* the reader fills a page of k rows as far as the rows are readable
      n == CHOOSE j \in 1 .. k :
             /\ ReadablePage(p, j, excluded)
             /\ \A i \in (j + 1) .. k : ~ReadablePage(p, i, excluded)
  IN  IF p >= SourceLen THEN <<>>
      ELSE <<SourceBlob(p, n)>> \o SourceBlobs(p + n, k, excluded)

\* every blob monitor.events_blobs_generator yields
RECURSIVE ReplayBlobs(_, _)
ReplayBlobs(queue, k) ==
  LET n == CHOOSE j \in 1 .. k :
             /\ ContiguousPrefix(queue, j)
             /\ \A i \in (j + 1) .. k : ~ContiguousPrefix(queue, i)
  IN  IF queue = <<>> THEN <<>>
      ELSE <<ReplayBlob(queue, n)>>
           \o ReplayBlobs(SubSeq(queue, n + 1, Len(queue)), k)

\* FetchDataTask.execute, given a monitor: the non-empty blobs of the
\* generator, as a list
FetchDataTask_execute(g, k) ==
  SelectSeq(IF g.is_retry
            THEN ReplayBlobs(replay_failed(g.failures, Location), k)
            ELSE SourceBlobs(0, k, generate_processed_blobs_ranges(
                                     g.ranges, Location)),
            BlobIsNonEmpty)

\* MonitorTask.execute: "blobs = xcom_pull(task_ids='fetch_data')"
monitor_input(g) == g.xcom_fetch_data

\* MonitorTask.execute: store_blob and store_events for each non-empty blob
RECURSIVE MonitorTask_store(_, _)
MonitorTask_store(g, blobs) ==
  IF blobs = <<>> THEN g
  ELSE IF ~BlobIsNonEmpty(Head(blobs)) THEN MonitorTask_store(g, Tail(blobs))
  ELSE MonitorTask_store(
         [g EXCEPT
            !.ranges = store_blob_ranges(g.ranges, Head(blobs).location,
                                         Head(blobs).position,
                                         Head(blobs).num_rows),
            !.failures =
              store_events(
                store_blob_failures(g.failures, Head(blobs).location,
                                    Head(blobs).position,
                                    Head(blobs).num_rows),
                Head(blobs).location, Head(blobs).failed_events)],
         Tail(blobs))

\* the task group is built; whether the FetchDataTask object carries a
\* monitor is not decided by its constructor
InitGroup ==
  /\ enable_monitoring = TRUE
  /\ return_report = FALSE
  /\ MonitoringDefaults
  /\ NoDagBuilt
  /\ InitRun
  /\ lookup = NoLookup
  /\ ads = NoAds
  /\ retention = NoRetention
  /\ concurrent = NoConcurrent
  /\ \E has_monitor \in BOOLEAN, enabled \in BOOLEAN :
       group = [NoGroup EXCEPT !.has_monitor = has_monitor,
                               !.enable_monitoring = enabled]

\* the scheduler starts a run of the group
GroupRun ==
  /\ group.pc \in {"idle", "done", "failed"}
  /\ group.runs < MaxRuns
  /\ \E retry \in BOOLEAN :
       group' = [group EXCEPT !.pc = "fetch_data", !.is_retry = retry,
                              !.runs = @ + 1, !.xcom_fetch_data = <<>>,
                              !.xcom_send_events = <<>>, !.next = 1,
                              !.reports = <<>>, !.failed_task = "none",
                              !.sent = <<>>]
  /\ UNCHANGED <<pipeline_vars, lookup, ads, retention, concurrent>>

\* FetchDataTask.execute: it reads self.monitor, which __init__ never sets
FetchData ==
  /\ group.pc = "fetch_data"
  /\ \/ /\ ~group.has_monitor
        /\ group' = [group EXCEPT !.pc = "failed",
                                  !.failed_task = "fetch_data"]
     \/ /\ group.has_monitor
        /\ \E k \in 1 .. MaxBlobRows :
             group' = [group EXCEPT
                         !.pc = "send_events",
                         !.xcom_fetch_data = FetchDataTask_execute(group, k)]
  /\ UNCHANGED <<pipeline_vars, lookup, ads, retention, concurrent>>

\* SendEventsTask.execute, one turn of "for blb in blobs:"
SendBlob ==
  /\ group.pc = "send_events"
  /\ group.next <= Len(group.xcom_fetch_data)
  /\ LET b == group.xcom_fetch_data[group.next]
     IN  \E o \in UploadOutcomes(Len(b.events)) :
           group' =
             [group EXCEPT
                !.next = @ + 1,
                !.reports = Append(@, send_events(b, o).reports),
                !.sent = Append(@, send_events(b, o)),
                !.resent = @ \cup (BlobPositions(b) \cap group.accepted),
                !.accepted =
                  @ \cup {b.position + i : i \in AcceptedIndices(b, o)}]
  /\ UNCHANGED <<pipeline_vars, lookup, ads, retention, concurrent>>

\* SendEventsTask.execute ends with an exception, or the task is killed
SendEventsFails ==
  /\ group.pc = "send_events"
  /\ group' = [group EXCEPT !.pc = "failed", !.failed_task = "send_events"]
  /\ UNCHANGED <<pipeline_vars, lookup, ads, retention, concurrent>>

\* SendEventsTask.execute: "return reports"
SendEventsReturns ==
  /\ group.pc = "send_events"
  /\ group.next > Len(group.xcom_fetch_data)
  /\ group' = [group EXCEPT !.pc = "monitor",
                            !.xcom_send_events = group.reports]
  /\ UNCHANGED <<pipeline_vars, lookup, ads, retention, concurrent>>

\* MonitorTask.execute
Monitor ==
  /\ group.pc = "monitor"
  /\ group' =
       IF group.enable_monitoring
       THEN [MonitorTask_store(group, monitor_input(group))
               EXCEPT !.pc = "done"]
       ELSE [group EXCEPT !.pc = "done"]
  /\ UNCHANGED <<pipeline_vars, lookup, ads, retention, concurrent>>

NextGroup ==
  \/ GroupRun
  \/ FetchData
  \/ SendBlob
  \/ SendEventsFails
  \/ SendEventsReturns
  \/ Monitor

SpecGroup == InitGroup /\ [][NextGroup]_vars

(***************************************************************************)
(* Two runs of BaseDataConnectorOperator.execute at the same time, for the *)
(* same location and the same monitoring table, monitoring enabled.  Each  *)
(* call of the monitoring hook is one step.                                *)
(***************************************************************************)
InitConcurrent ==
  /\ enable_monitoring = TRUE
  /\ return_report = FALSE
  /\ MonitoringDefaults
  /\ NoDagBuilt
  /\ InitRun
  /\ lookup = NoLookup
  /\ ads = NoAds
  /\ group = NoGroup
  /\ retention = NoRetention
  /\ concurrent = NoConcurrent

\* execute of run i up to "reports = []"
ConcurrentBegin(i) ==
  /\ concurrent.run[i].pc = "idle"
  /\ \E retry \in BOOLEAN :
       concurrent' =
         [concurrent EXCEPT
            !.run[i].pc = "fetch",
            !.run[i].is_retry = retry,
            !.run[i].blob_source =
              IF blob_generator_kind(retry) = "replay"
              THEN [NoSource EXCEPT !.kind = "replay",
                      !.queue = replay_failed(concurrent.failures, Location)]
              ELSE [NoSource EXCEPT !.kind = "reader",
                      !.excluded = reader_excluded(concurrent.ranges)]]
  /\ UNCHANGED <<pipeline_vars, lookup, ads, group, retention>>

\* "for blb in blob_generator:" of run i, or the end of the loop
ConcurrentPull(i) ==
  /\ concurrent.run[i].pc = "fetch"
  /\ LET src == concurrent.run[i].blob_source
         p == NextUncovered(src.cursor, src.excluded)
     IN  \/ /\ src.kind = "reader"
            /\ \E k \in 1 .. MaxBlobRows :
                 /\ ReadablePage(p, k, src.excluded)
                 /\ concurrent' =
                      [concurrent EXCEPT
                         !.run[i].pc = "send",
                         !.run[i].blb = SourceBlob(p, k),
                         !.run[i].blob_source.cursor = p + k]
         \/ /\ src.kind = "replay"
            /\ \E k \in 1 .. MaxBlobRows :
                 /\ ContiguousPrefix(src.queue, k)
                 /\ concurrent' =
                      [concurrent EXCEPT
                         !.run[i].pc = "send",
                         !.run[i].blb = ReplayBlob(src.queue, k),
                         !.run[i].blob_source.queue =
                           SubSeq(src.queue, k + 1, Len(src.queue))]
         \/ /\ IF src.kind = "reader" THEN p >= SourceLen
               ELSE src.queue = <<>>
            /\ concurrent' = [concurrent EXCEPT !.run[i].pc = "done"]
  /\ UNCHANGED <<pipeline_vars, lookup, ads, group, retention>>

\* "blb = self.output_hook.send_events(blb)" of run i
ConcurrentSend(i) ==
  /\ concurrent.run[i].pc = "send"
  /\ \E o \in UploadOutcomes(Len(concurrent.run[i].blb.events)) :
       concurrent' =
         [concurrent EXCEPT
            !.run[i].pc = "store_blob",
            !.run[i].blb = execute_send_events(@, o),
            !.run[i].sent =
              IF concurrent.run[i].is_retry THEN @
              ELSE @ \cup BlobPositions(concurrent.run[i].blb)]
  /\ UNCHANGED <<pipeline_vars, lookup, ads, group, retention>>

\* "monitor.store_blob(...)" of run i
ConcurrentStoreBlob(i) ==
  /\ concurrent.run[i].pc = "store_blob"
  /\ LET a == store_blob_args(concurrent.run[i].blb)
     IN  concurrent' =
           [concurrent EXCEPT
              !.run[i].pc = "store_events",
              !.run[i].recorded =
                @ \cup {ProcessedRange(a.location, a.position, a.num_rows)},
              !.ranges = store_blob_ranges(@, a.location, a.position,
                                           a.num_rows),
              !.failures = store_blob_failures(@, a.location, a.position,
                                               a.num_rows)]
  /\ UNCHANGED <<pipeline_vars, lookup, ads, group, retention>>

\* "monitor.store_events(...)" of run i
ConcurrentStoreEvents(i) ==
  /\ concurrent.run[i].pc = "store_events"
  /\ LET a == store_events_args(concurrent.run[i].blb)
     IN  concurrent' =
           [concurrent EXCEPT
              !.run[i].pc = "fetch",
              !.failures = store_events(@, a.location,
                                        a.id_event_error_tuple_list)]
  /\ UNCHANGED <<pipeline_vars, lookup, ads, group, retention>>

NextConcurrent ==
  \E i \in {1, 2} :
    \/ ConcurrentBegin(i)
    \/ ConcurrentPull(i)
    \/ ConcurrentSend(i)
    \/ ConcurrentStoreBlob(i)
    \/ ConcurrentStoreEvents(i)

SpecConcurrent == InitConcurrent /\ [][NextConcurrent]_vars

(***************************************************************************)
(* Retention (spec.md 4.4, prune): the cleanup task deletes the rows of    *)
(* the monitoring table older than days_to_live days while runs go on      *)
(* writing rows.  Timestamps are counted in days.                          *)
(***************************************************************************)
\* the rows found in the first state are fresh or within this many days of
\* the end of the retention window
AgeMargin == 2
\* the number of rows the table holds in the first state, at most
MaxStoredRows == 2
\* the number of rows the runs write, at most
MaxWrites == 1
\* the number of days that pass, at most
MaxTicks == 1

\* base_dag._DEFAULT_MONITORING_DATA_DAYS_TO_LIVE
_DEFAULT_MONITORING_DATA_DAYS_TO_LIVE == 50

\* the day of the first state
Today == _DEFAULT_MONITORING_DATA_DAYS_TO_LIVE + AgeMargin

\* the rows the table can hold in the first state: processed ranges and
\* failed events, each with the day it was written
StoredRows ==
  [type : {"ProcessedRange", "FailedEventRecord"},
   timestamp : {Today} \cup (0 .. (2 * AgeMargin))]

\* variant: the cleanup task is given one day less
cleanup_days_to_live_shortened(days_to_live) == days_to_live - 1

\* _create_cleanup_task: "days_to_live=self.days_to_live"
cleanup_days_to_live(days_to_live) == days_to_live

\* prune: a row is deleted when it is older than the retention window
expired(row, cutoff) == row.timestamp < cutoff

InitRetention ==
  /\ enable_monitoring = TRUE
  /\ return_report = FALSE
  /\ MonitoringDefaults
  /\ NoDagBuilt
  /\ InitRun
  /\ lookup = NoLookup
  /\ ads = NoAds
  /\ group = NoGroup
  /\ concurrent = NoConcurrent
  /\ \E rows \in SUBSET StoredRows :
       /\ Cardinality(rows) <= MaxStoredRows
       /\ retention = [NoRetention EXCEPT !.now = Today, !.rows = rows,
                                          !.ever = rows]

\* a day passes
Tick ==
  /\ retention.now < Today + MaxTicks
  /\ retention' = [retention EXCEPT !.now = @ + 1]
  /\ UNCHANGED <<pipeline_vars, lookup, ads, group, concurrent>>

\* a run records an outcome: a row stamped with the current day
WriteRow ==
  /\ retention.writes < MaxWrites
  /\ \E type \in {"ProcessedRange", "FailedEventRecord"} :
       LET row == [type |-> type, timestamp |-> retention.now]
       IN  retention' = [retention EXCEPT !.rows = @ \cup {row},
                                          !.ever = @ \cup {row},
                                          !.writes = @ + 1]
  /\ UNCHANGED <<pipeline_vars, lookup, ads, group, concurrent>>

\* the cleanup task starts: the end of the window is days_to_live days
\* before the current day
PruneBegin ==
  /\ retention.pc \in {"idle", "pruned"}
  /\ retention' =
       [retention EXCEPT
          !.pc = "pruning",
          !.cutoff =
            retention.now
            - cleanup_days_to_live(_DEFAULT_MONITORING_DATA_DAYS_TO_LIVE),
          !.pruned_at = retention.now,
          !.before = retention.rows,
          !.deleted = {}]
  /\ UNCHANGED <<pipeline_vars, lookup, ads, group, concurrent>>

\* the cleanup task deletes the expired rows
PruneDelete ==
  /\ retention.pc = "pruning"
  /\ retention' =
       [retention EXCEPT
          !.pc = "pruned",
          !.rows = {r \in @ : ~expired(r, retention.cutoff)},
          !.deleted = {r \in retention.rows : expired(r, retention.cutoff)}]
  /\ UNCHANGED <<pipeline_vars, lookup, ads, group, concurrent>>

NextRetention ==
  \/ Tick
  \/ WriteRow
  \/ PruneBegin
  \/ PruneDelete

SpecRetention == InitRetention /\ [][NextRetention]_vars

TypeOK ==
  /\ pc \in {"idle", "fetch", "send", "store_blob", "store_events", "done",
             "fatal"}
  /\ runs \in 0 .. MaxRuns
  /\ \A r \in processedRanges : r.start < r.end /\ r.end <= SourceLen
  /\ \A f \in failedRecords : f.position \in SourcePositions

(***************************************************************************)
(* Properties.                                                             *)
(***************************************************************************)
\* send_events has returned for the blob in blb
BlobSent == outcome.kind # "none"

\* the loop body has finished for the blob in blb, with monitoring enabled
BlobRecorded ==
  /\ BlobSent
  /\ enable_monitoring
  /\ \/ pc \in {"fetch", "done"}
     \/ pc = "fatal" /\ abortedAt = "fetch"

BlobIndices(b) == 0 .. (Len(b.events) - 1)

\* the entries of failed_events recorded under an absolute position
EntriesAt(b, position) ==
  {k \in 1 .. Len(b.failed_events) : b.failed_events[k][1] = position}

\* C1: after send_events returns, every record index i of the blob is either
\* accepted by the sink and absent from failed_events, or rejected and
\* present exactly once under position + i; failed_events holds nothing else.
NoSilentLoss ==
  BlobSent =>
    /\ \A i \in BlobIndices(blb) :
         IF i \in AcceptedIndices(blb, outcome)
         THEN EntriesAt(blb, blb.position + i) = {}
         ELSE Cardinality(EntriesAt(blb, blb.position + i)) = 1
    /\ \A k \in 1 .. Len(blb.failed_events) :
         blb.failed_events[k][1] \in BlobPositions(blb)

NoSilentLossWitness ==
  /\ BlobSent
  /\ blb.position > 0
  /\ AcceptedIndices(blb, outcome) # {}
  /\ AcceptedIndices(blb, outcome) # BlobIndices(blb)

\* C2: when the upload call raises a request-level error, send_events
\* returns (the run does not abort in the send step) and failed_events lists
\* every record of the blob as (position + index, record, code) with one code.
RequestFailureFailsWholeBlob ==
  outcome.kind = "request_error" =>
    /\ abortedAt # "send"
    /\ Len(blb.failed_events) = Len(blb.events)
    /\ \A i \in 1 .. Len(blb.events) :
         blb.failed_events[i] =
           <<blb.position + (i - 1), blb.events[i], blb.failed_events[1][3]>>

RequestFailureWitness ==
  /\ outcome.kind = "request_error"
  /\ blb.position > 0
  /\ Len(blb.events) = MaxBlobRows

\* C3: when the upload call returns a list of (index, error code) pairs,
\* failed_events holds exactly the records at the reported indices, each with
\* its reported code, and no other record of the blob.
PartialFailureMarksReportedOnly ==
  outcome.kind = "response" =>
    /\ \A i \in BlobIndices(blb) :
         IF i \in DOMAIN outcome.failures
         THEN \E k \in 1 .. Len(blb.failed_events) :
                blb.failed_events[k] =
                  <<blb.position + i, blb.events[i + 1], outcome.failures[i]>>
         ELSE EntriesAt(blb, blb.position + i) = {}
    /\ Len(blb.failed_events) = Cardinality(DOMAIN outcome.failures)

PartialFailureWitness ==
  /\ outcome.kind = "response"
  /\ Len(blb.events) = 2
  /\ DOMAIN outcome.failures = {0}
  /\ blb.position > 0

\* the rows the loop body is to write for a sent blob
ExpectedRows(b) ==
  <<[type |-> "range",
     row |-> ProcessedRange(b.location, b.position, b.num_rows)]>>
  \o [k \in 1 .. Len(b.failed_events) |->
        [type |-> "failure",
         row |-> FailedEventRecord(b.location, b.failed_events[k])]]

\* C4: with monitoring enabled, once the loop body has finished for a
\* non-empty blob the run has written exactly one processed range
\* (location, position, position + num_rows) and exactly one failed-event
\* record per entry of failed_events, and the store holds these rows.
RecordsOneRangeAndEachFailure ==
  BlobRecorded =>
    /\ written = ExpectedRows(blb)
    /\ ProcessedRange(blb.location, blb.position, blb.num_rows)
         \in processedRanges
    /\ \A k \in 1 .. Len(blb.failed_events) :
         FailedEventRecord(blb.location, blb.failed_events[k])
           \in failedRecords
    /\ \A f \in failedRecords :
         (f.location = blb.location /\ f.position \in BlobPositions(blb)) =>
           \E k \in 1 .. Len(blb.failed_events) :
             f = FailedEventRecord(blb.location, blb.failed_events[k])

RecordsOneRangeWitness ==
  /\ BlobRecorded
  /\ ~is_retry
  /\ blb.position = 1
  /\ blb.num_rows = 2
  /\ blb.failed_events = <<<<2, SourceRecord(2), RecordErrorCode>>>>
  /\ Len(written) = 2

\* a record (location, position, payload) is an outstanding failure
Outstanding(r) ==
  \E f \in failedRecords :
    /\ f.location = r.location
    /\ f.position = r.position
    /\ f.payload = r.payload

\* C5: a retry-mode run draws its blobs from the failure replay and never
\* from the source reader; every record of a blob it is about to send is an
\* outstanding failure at that location and absolute position, and every
\* outstanding failure is still queued, or in the blob pulled last, or was
\* sent by this run.
RetryReplaysOutstandingFailures ==
  (is_retry /\ pc # "idle") =>
    /\ blob_source.kind = "replay"
    /\ blob_source.cursor = 0
    /\ pc = "send" =>
         \A r \in RecordsAt(blb, BlobIndices(blb)) : Outstanding(r)
    /\ \A f \in failedRecords :
         \/ f \in Range(blob_source.queue)
         \/ ~BlobSent /\ f.location = blb.location
              /\ f.position \in BlobPositions(blb)
         \/ [location |-> f.location, position |-> f.position,
             payload |-> f.payload] \in run_failed \cup run_delivered
    /\ pc = "done" => blob_source.queue = <<>>

RetryReplayWitness ==
  /\ is_retry
  /\ pc = "send"
  /\ blb.position > 0
  /\ blb.num_rows = 2
  /\ blob_source.queue = <<>>

\* C6: when a retry-mode run has recorded the blobs it sent, a failed-event
\* record whose record the sink accepted in this run is no longer
\* outstanding, and one whose record failed again is still outstanding with
\* the same location, absolute position and payload.
RetryClosesTheLoop ==
  (is_retry /\ pc \in {"fetch", "done"}) =>
    /\ \A r \in run_delivered :
         ~\E f \in failedRecords :
            f.location = r.location /\ f.position = r.position
    /\ \A r \in run_failed : Outstanding(r)

RetryClosesTheLoopWitness ==
  /\ is_retry
  /\ pc = "done"
  /\ run_delivered # {}
  /\ run_failed # {}
  /\ \E r \in run_delivered : r.position > 0

\* a step of a retry-mode run
RetryStep == is_retry /\ InRun

\* C7 as stated: a retry-mode run leaves the set of processed ranges
\* unchanged.
RetryLeavesRangesUnchanged ==
  [][RetryStep => processedRanges' = processedRanges]_vars

\* C7 as amended: a retry-mode run never removes or alters a processed range
\* and never changes the positions the ranges cover; the only range it adds
\* is that of the replayed blob, and the only failure entries it removes are
\* at positions of the replayed blob.
RetryPreservesCoveredPositions ==
  [][RetryStep =>
       /\ processedRanges \subseteq processedRanges'
       /\ processedRanges' \ processedRanges \subseteq
            {ProcessedRange(blb.location, blb.position, blb.num_rows)}
       /\ Covered(processedRanges', Location)
            = Covered(processedRanges, Location)
       /\ \A f \in failedRecords \ failedRecords' :
            f.location = blb.location /\ f.position \in BlobPositions(blb)
    ]_vars

RetryAddsReplayRangeWitness ==
  /\ is_retry
  /\ pc = "done"
  /\ run_delivered # {}
  /\ ProcessedRange(Location, 1, 2) \in processedRanges \ run_ranges
  /\ ProcessedRange(Location, 2, 1) \in processedRanges \cap run_ranges

\* no two distinct processed ranges share a position
NoOverlap(ranges) ==
  \A r1 \in ranges : \A r2 \in ranges :
    (r1 # r2 /\ r1.location = r2.location) =>
      (r1.end <= r2.start \/ r2.end <= r1.start)

\* the processed ranges cover the whole source
FullCoverage == Covered(processedRanges, Location) = SourcePositions

\* the step in which a normal-mode run sends the blob in blb
NormalSendStep == ~is_retry /\ pc = "send" /\ pc' \in {"store_blob", "fetch"}

\* C8 as stated: over normal-mode runs the recorded ranges never overlap,
\* after a run that exhausted the source they cover the full source range,
\* and no source position is sent by more than one run.
ResumptionSendsEachPositionOnce ==
  [][/\ NoOverlap(processedRanges')
     /\ pc' = "done" => FullCoverage'
     /\ NormalSendStep => BlobPositions(blb) \cap sentEver = {}
    ]_vars

\* C8 as amended: over normal-mode runs with monitoring enabled the recorded
\* ranges never overlap, after a run that exhausted the source they cover the
\* full source range, and no source position covered by a recorded range is
\* sent again.
ResumptionSkipsRecordedRanges ==
  [][enable_monitoring =>
       /\ NoOverlap(processedRanges')
       /\ pc' = "done" => FullCoverage'
       /\ NormalSendStep =>
            BlobPositions(blb) \cap Covered(processedRanges, Location) = {}
    ]_vars

ResumptionWitness ==
  /\ enable_monitoring
  /\ runs = 2
  /\ pc = "done"
  /\ FullCoverage
  /\ run_ranges # {}
  /\ run_ranges # processedRanges
  /\ \E r \in run_ranges : r.start > 0

\* C9: after a run is cancelled or fails, the store holds the failed-event
\* records of a blob whenever it holds the processed range written for that
\* blob, and nothing was written for a blob whose send step did not complete.
CancellationLeavesStoreConsistent ==
  pc = "fatal" =>
    /\ (\E k \in 1 .. Len(written) : written[k].type = "range") =>
         \A k \in 1 .. Len(blb.failed_events) :
           FailedEventRecord(blb.location, blb.failed_events[k])
             \in failedRecords
    /\ ~BlobSent => written = <<>>

\* the run aborted while the blob in blb was between send and recording
AbortedAfterSend == abortedAt \in {"store_blob", "store_events"}

\* the ranges of the blobs this run sent before the one it aborted in
EarlierRanges ==
  IF AbortedAfterSend
  THEN run_ranges \ {ProcessedRange(blb.location, blb.position, blb.num_rows)}
  ELSE run_ranges

\* the failed records of the blobs this run sent before the one it aborted in
EarlierFailed ==
  IF AbortedAfterSend
  THEN {r \in run_failed : r.position \notin BlobPositions(blb)}
  ELSE run_failed

\* the outcome of every earlier blob of the run is in the store
EarlierOutcomesRecorded ==
  /\ EarlierRanges \subseteq processedRanges
  /\ \A r \in EarlierFailed : Outstanding(r)

\* C10 as stated: when a run aborts while handling a blob, the processed
\* range and failed events of every earlier blob of the run are recorded.
AbortKeepsEarlierOutcomes == pc = "fatal" => EarlierOutcomesRecorded

\* C10 as amended: the same, for a run with monitoring enabled.
AbortKeepsEarlierOutcomesWhenMonitoring ==
  (pc = "fatal" /\ enable_monitoring) => EarlierOutcomesRecorded

AbortKeepsEarlierOutcomesWitness ==
  /\ pc = "fatal"
  /\ enable_monitoring
  /\ abortedAt = "store_blob"
  /\ EarlierRanges # {}
  /\ EarlierFailed # {}

\* the processed range of a blob
BlobRange(b) == ProcessedRange(b.location, b.position, b.num_rows)

\* C11: within one run the blobs are handled one after the other in read
\* order: the blobs sent before the one in blb lie at lower positions, the
\* only sent blob whose outcome the store may still lack is the one in blb,
\* and when the next blob has been read and is about to be sent the ranges
\* and failed events of all blobs sent before it are in the store.
BlobsHandledInReadOrder ==
  /\ BlobSent =>
       \A r \in run_ranges \ {BlobRange(blb)} : r.end <= blb.position
  /\ enable_monitoring =>
       /\ run_ranges \ processedRanges \subseteq
            (IF BlobSent THEN {BlobRange(blb)} ELSE {})
       /\ ~BlobSent => \A r \in run_failed : Outstanding(r)

BlobsHandledInReadOrderWitness ==
  /\ enable_monitoring
  /\ ~is_retry
  /\ pc = "send"
  /\ blb.position > 0
  /\ run_ranges # {}
  /\ run_failed # {}

\* every blob the generator of the run produces has been sent
EveryBlobSent ==
  IF is_retry
  THEN /\ blob_source.queue = <<>>
       /\ \A f \in failedRecords :
            [location |-> f.location, position |-> f.position,
             payload |-> f.payload] \in run_failed
  ELSE SourcePositions \subseteq
         Covered(blob_source.excluded, Location)
           \cup Covered(run_ranges, Location)

\* C12: a request-level failure of the upload call does not end the run: once
\* the loop body has finished for that blob all its records are outstanding
\* failures, and a run that ends normally has sent every blob its generator
\* produced and recorded the range and the failed events of each of them.
RequestFailureDoesNotEndRun ==
  /\ (outcome.kind = "request_error" /\ BlobRecorded) =>
       \A r \in RecordsAt(blb, BlobIndices(blb)) : Outstanding(r)
  /\ pc = "done" =>
       /\ EveryBlobSent
       /\ enable_monitoring =>
            /\ run_ranges \subseteq processedRanges
            /\ \A r \in run_failed : Outstanding(r)

RequestFailureDoesNotEndRunWitness ==
  /\ pc = "done"
  /\ ~is_retry
  /\ enable_monitoring
  /\ \E f \in failedRecords :
       /\ f.code = SystemicErrorCode
       /\ f.position = 0
       /\ [location |-> f.location, position |-> f.position,
           payload |-> f.payload] \in run_failed
  /\ \E r \in run_delivered : r.position > 0
  /\ \E r \in run_ranges : r.start > 0 /\ r \in processedRanges

\* C13: with monitoring disabled a run writes nothing to the checkpoint
\* store, never enters the store calls, and a normal-mode run that ends has
\* still sent every position of the source.
MonitoringDisabledWritesNothing ==
  ~enable_monitoring =>
    /\ processedRanges = {}
    /\ failedRecords = {}
    /\ written = <<>>
    /\ pc \notin {"store_blob", "store_events"}
    /\ (pc = "done" /\ ~is_retry) =>
         Covered(run_ranges, Location) = SourcePositions

MonitoringDisabledWitness ==
  /\ ~enable_monitoring
  /\ ~is_retry
  /\ pc = "done"
  /\ run_failed # {}
  /\ run_delivered # {}
  /\ Cardinality(run_ranges) > 1

\* positions of execute inside the loop body
InLoopBody == {"send", "store_blob", "store_events"}

\* C14: an empty blob never enters the loop body: it is not sent, nothing is
\* written for it, the run holds one report per non-empty blob it sent, and
\* no range of the run or of the store is empty.
EmptyBlobIsSkipped ==
  /\ ~BlobIsNonEmpty(blb) =>
       /\ pc \notin InLoopBody
       /\ abortedAt \notin InLoopBody
       /\ ~BlobSent
       /\ written = <<>>
  /\ Len(reports) = Cardinality(run_ranges)
  /\ \A r \in run_ranges \cup processedRanges : r.start < r.end

EmptyBlobIsSkippedWitness ==
  /\ blob_source.sentinel
  /\ ~BlobIsNonEmpty(blb)
  /\ pc = "fetch"
  /\ enable_monitoring
  /\ run_ranges # {}
  /\ run_failed # {}
  /\ ~SourceExhausted

\* C15: a run that ends returns the collected reports exactly when
\* return_report is set and returns no value otherwise; a run that has not
\* ended has returned nothing; the collected list holds one report per sent
\* blob and the report of the blob sent last is its last element.
ReturnsReportsIffRequested ==
  /\ pc = "done" =>
       /\ result.returned = return_report
       /\ return_report => result.reports = reports
       /\ ~return_report => result = NoResult
  /\ pc # "done" => result = NoResult
  /\ Len(reports) = Cardinality(run_ranges)
  /\ BlobSent => reports[Len(reports)] = blb.reports

ReturnsReportsWitness ==
  /\ pc = "done"
  /\ return_report
  /\ result.returned
  /\ result.reports = <<"request_error", "response">>

\* the task ids '<name>_retry_task' and '<name>_task' of the DAG class
ExpectedRetryTaskId == task_name(base_dag.dag_name) \o "_retry_task"
ExpectedRunTaskId == task_name(base_dag.dag_name) \o "_task"

\* create_dag has returned a DAG built with is_retry and is_run enabled
BothEnabled ==
  dag_pc = "created" /\ base_dag.dag_is_retry /\ base_dag.dag_is_run

\* the run task is downstream of the retry task and is not started before
\* the retry task has succeeded
RunFollowsRetry ==
  /\ Upstream(main_dag, ExpectedRunTaskId) = {ExpectedRetryTaskId}
  /\ ExpectedRunTaskId \in task_state.started =>
       ExpectedRetryTaskId \in task_state.succeeded

\* C16 as stated: with is_retry and is_run enabled the DAG create_dag
\* returns has exactly the tasks '<name>_retry_task' and '<name>_task', in
\* this order, and the run task follows the retry task.
RetryThenRunAreTheOnlyTasks ==
  BothEnabled =>
    /\ TaskIds(main_dag) = <<ExpectedRetryTaskId, ExpectedRunTaskId>>
    /\ RunFollowsRetry

\* C16 as amended: with is_retry and is_run enabled and both tasks created
\* without error, the tasks of the DAG are '<name>_retry_task', then
\* '<name>_task', then 'cleanup' if monitoring cleanup is enabled, and no
\* other; the run task follows the retry task.
RetryThenRunWhenCreated ==
  (BothEnabled /\ create_how.retry = "returns" /\ create_how.run = "returns")
  =>
    /\ TaskIds(main_dag) =
         <<ExpectedRetryTaskId, ExpectedRunTaskId>>
         \o (IF base_dag.dag_enable_monitoring_cleanup THEN <<"cleanup">>
             ELSE <<>>)
    /\ RunFollowsRetry

RetryThenRunWitness ==
  /\ BothEnabled
  /\ create_how = AllReturn
  /\ ~base_dag.dag_enable_monitoring_cleanup
  /\ ExpectedRetryTaskId \in task_state.succeeded
  /\ ExpectedRunTaskId \in task_state.started

\* create_dag was called and the construction of the retry task or of the
\* run task raised
TaskCreationFailed ==
  /\ dag_pc \in {"created", "create_error"}
  /\ create_how.retry # "returns" \/ create_how.run # "returns"

\* C17: when the construction of the retry task or of the run task raises,
\* create_dag returns a DAG whose only task is 'configuration_error', with no
\* dependency, and no other task is ever started.
TaskCreationErrorYieldsErrorDag ==
  TaskCreationFailed =>
    /\ dag_pc = "created"
    /\ TaskIds(main_dag) = <<"configuration_error">>
    /\ main_dag.upstream = {}
    /\ task_state.started \subseteq {"configuration_error"}
    /\ task_state.succeeded = {}

TaskCreationErrorWitness ==
  /\ TaskCreationFailed
  /\ base_dag.dag_is_retry
  /\ base_dag.dag_enable_monitoring_cleanup
  /\ create_how.retry = "returns"
  /\ create_how.run = "raises_attached"
  /\ "configuration_error" \in task_state.failed

\* the value of a variable under layered lookup: the prefixed variable, else
\* the unprefixed variable, else the default
Layered(variables, prefix, name, default) ==
  LET own == Variable_get(variables, prefixed(prefix, name), NotSet)
  IN  IF own # NotSet THEN own ELSE Variable_get(variables, name, default)

\* C19: the options of a DAG are resolved by layered lookup: the dataset the
\* input hook of every retry and run task reads, and the monitoring dataset
\* of the DAG, are the prefixed variable if set, else the unprefixed one if
\* set, else the default.
LayeredConfigurationLookup ==
  (dag_pc = "created" /\ create_how = AllReturn) =>
    /\ \A i \in 1 .. Len(main_dag.tasks) :
         main_dag.tasks[i].kind \in {"retry", "run"} =>
           main_dag.tasks[i].dataset_id =
             Layered(airflow_variables, base_dag.dag_name, "bq_dataset_id",
                     PyStr(""))
    /\ base_dag.monitoring_dataset =
         Layered(airflow_variables, base_dag.dag_name, "monitoring_dataset",
                 PyStr(_DEFAULT_MONITORING_DATASET_ID))

\* a task has ended, in success or in failure
Completed(task_id) ==
  task_id \in task_state.succeeded \cup task_state.failed

\* C20: the cleanup task is started only after the retry task and the run
\* task of the DAG have completed.
CleanupRunsAfterRetryAndRun ==
  "cleanup" \in task_state.started =>
    \A i \in 1 .. Len(main_dag.tasks) :
      main_dag.tasks[i].kind \in {"retry", "run"} =>
        Completed(main_dag.tasks[i].task_id)

\* a monitoring parameter of the operator is missing or empty
MonitoringParameterMissing ==
  "" \in {monitoring_dataset, monitoring_table, monitoring_bq_conn_id}

\* C18: with monitoring enabled and a monitoring parameter missing, the
\* construction of the MonitorTask raises MonitoringValueError and a run ends
\* where the monitoring hook is created, before a blob is read or sent and
\* with the store untouched; otherwise neither raises a configuration error.
MissingMonitoringParametersAreFatal ==
  IF enable_monitoring /\ MonitoringParameterMissing
  THEN /\ monitor_task \in {"none", "MonitoringValueError"}
       /\ pc \in {"idle", "fatal"}
       /\ pc = "fatal" => abortedAt = "construct"
       /\ blob_source = NoSource
       /\ blb = NoBlob
       /\ reports = <<>>
       /\ run_ranges = {}
       /\ sentEver = {}
       /\ processedRanges = {}
       /\ failedRecords = {}
  ELSE /\ monitor_task \in {"none", "constructed"}
       /\ abortedAt # "construct"

MissingMonitoringParametersWitness ==
  /\ enable_monitoring
  /\ monitoring_bq_conn_id = ""
  /\ monitoring_dataset # ""
  /\ monitoring_table # ""
  /\ monitor_task = "MonitoringValueError"
  /\ pc = "fatal"
  /\ abortedAt = "construct"
  /\ runs = MaxRuns

\* C29: the DAG create_dag returns holds a cleanup task only if dag_is_run is
\* set: without a run task there is no cleanup task, whatever the cleanup
\* option says, and without a retry task either the DAG has no task at all.
CleanupOnlyWithRunTask ==
  dag_pc = "created" =>
    /\ ~base_dag.dag_is_run => "cleanup" \notin Range(TaskIds(main_dag))
    /\ (~base_dag.dag_is_retry /\ ~base_dag.dag_is_run) =>
         main_dag.tasks = <<>>

CleanupOnlyWithRunTaskWitness ==
  /\ dag_pc = "created"
  /\ ~base_dag.dag_is_run
  /\ base_dag.dag_is_retry
  /\ base_dag.dag_enable_monitoring_cleanup
  /\ TaskIds(main_dag) = <<ExpectedRetryTaskId>>
  /\ ExpectedRetryTaskId \in task_state.succeeded

\* the value the layered lookup of a call finds: the prefixed variable
\* unless it is unset or equal to the flag, else the unprefixed variable,
\* else the fallback
LookedUp ==
  LET own == Variable_get(airflow_variables,
                          prefixed(lookup.prefix, lookup.name), lookup.flag)
  IN  IF own # lookup.flag THEN own
      ELSE Variable_get(airflow_variables, lookup.name, lookup.fallback)

\* the fallback of a call is not None and not of the expected type
FallbackMismatch ==
  /\ lookup.fallback # PyNone
  /\ lookup.fallback.type # lookup.expected_type
  /\ ~(lookup.fallback.type = "bool" /\ lookup.expected_type = "int")

\* C30: get_variable_value returns the looked-up value converted with
\* expected_type, and the fallback when the conversion raises ValueError; as
\* a bool every non-empty string, 'False' too, is True; a fallback that is
\* not None and not of the expected type raises TypeError with no variable
\* looked up.
GetVariableValueConverts ==
  lookup.pc = "returned" =>
    IF FallbackMismatch
    THEN lookup.result = Raised("TypeError") /\ lookup.reads = <<>>
    ELSE /\ lookup.reads # <<>>
         /\ (lookup.expected_type = "bool" /\ LookedUp.type = "str"
               /\ LookedUp.val # "")
              => lookup.result = Returned(PyBool(TRUE))
         /\ (lookup.expected_type = "int" /\ LookedUp.type = "str"
               /\ LookedUp.val \notin NumericStrings)
              => lookup.result = Returned(lookup.fallback)
         /\ (lookup.expected_type = "int" /\ LookedUp.type = "str"
               /\ LookedUp.val \in NumericStrings)
              => lookup.result = Returned(PyInt(IntOfString(LookedUp.val)))
         /\ (lookup.expected_type = "str" /\ LookedUp.type = "str")
              => lookup.result = Returned(LookedUp)

GetVariableValueWitness ==
  /\ lookup.pc = "returned"
  /\ lookup.expected_type = "bool"
  /\ lookup.fallback = PyBool(TRUE)
  /\ airflow_variables[prefixed(lookup.prefix, lookup.name)] = PyStr("False")
  /\ lookup.reads = <<prefixed(lookup.prefix, lookup.name)>>
  /\ lookup.result = Returned(PyBool(TRUE))

\* the number of calls at the end of the HTTP calls that timed out
RECURSIVE TrailingTimeouts(_)
TrailingTimeouts(calls) ==
  IF calls = <<>> THEN 0
  ELSE IF calls[Len(calls)].response.status # "timeout" THEN 0
  ELSE 1 + TrailingTimeouts(SubSeq(calls, 1, Len(calls) - 1))

\* the endpoints of the HTTP calls, in order
Urls(calls) == [k \in 1 .. Len(calls) |-> calls[k].url]

\* C23: an upload request that meets a connect timeout is sent again until
\* three attempts have timed out; the call then ends with a
\* send-unsuccessful error (token, upload, upload, upload when every attempt
\* timed out), and the number of HTTP calls of a call is bounded.
TransportErrorIsRetriedThreeTimes ==
  ads.op = "upload_click_conversions" =>
    /\ TrailingTimeouts(ads.calls) <= 3
    /\ TrailingTimeouts(ads.calls) \in {1, 2} => ads.pc = "request"
    /\ TrailingTimeouts(ads.calls) = 3 =>
         /\ ads.pc = "done"
         /\ ads.raised = "DataOutConnectorSendUnsuccessfulError"
    /\ (ads.pc = "done" /\ Len(ads.calls) >= 2
          /\ \A k \in 2 .. Len(ads.calls) :
               ads.calls[k].response.status = "timeout")
         => Urls(ads.calls) = <<"token", "upload", "upload", "upload">>
    /\ Len(ads.calls) <= 8

TransportErrorWitness ==
  /\ ads.op = "upload_click_conversions"
  /\ ads.pc = "done"
  /\ ads.raised = "DataOutConnectorSendUnsuccessfulError"
  /\ Len(ads.calls) = 4
  /\ ads.calls[1].response.status = "200"
  /\ \A k \in 2 .. 4 : ads.calls[k].response.status = "timeout"

\* the list upload_click_conversions returns reports the failed indices of
\* a response: an internal error at i as (i, retriable 'event not sent'),
\* and nothing for an index the response does not name
ReportsPartialFailure(value, response) ==
  /\ \A i \in DOMAIN response.failures :
       response.failures[i] = "internalError" =>
         <<i, "RETRIABLE_ERROR_EVENT_NOT_SENT">> \in Range(value)
  /\ \A e \in Range(value) : e[1] \in DOMAIN response.failures
  /\ Len(value) = Cardinality(DOMAIN response.failures)

\* C24: when the first upload is answered 401 'token expired', the hook
\* asks for a new token and sends the upload again (token, upload, token,
\* upload), and what the call returns is the result of the last upload: the
\* failed indices of its partial failure.
ExpiredTokenIsRefreshed ==
  ads.op = "upload_click_conversions" =>
    /\ (Len(ads.calls) >= 2 /\ ads.calls[2].response.status = "401_expired")
         => /\ Len(ads.calls) = 2 => ads.pc = "token"
            /\ Len(ads.calls) >= 3 => ads.calls[3].url = "token"
            /\ Len(ads.calls) >= 4 => ads.calls[4].url = "upload"
    /\ (ads.pc = "done" /\ ads.raised = "none")
         => /\ ads.calls[Len(ads.calls)].url = "upload"
            /\ ads.calls[Len(ads.calls)].response.status = "200"
            /\ ReportsPartialFailure(ads.value,
                                     ads.calls[Len(ads.calls)].response)

ExpiredTokenWitness ==
  /\ ads.op = "upload_click_conversions"
  /\ ads.pc = "done"
  /\ ads.payloads = 1
  /\ Urls(ads.calls) = <<"token", "upload", "token", "upload">>
  /\ ads.calls[2].response.status = "401_expired"
  /\ ads.calls[4].response.status = "200"
  /\ ads.value = <<<<0, "RETRIABLE_ERROR_EVENT_NOT_SENT">>>>

\* C25: a 400 response and a 401 response that is not a token expiry end
\* the call at once: no HTTP call follows, and the call raises, for the 401
\* an authentication error.
NonRetriableResponsesAreNotRetried ==
  \A k \in 1 .. Len(ads.calls) :
    (ads.calls[k].url # "token"
       /\ ads.calls[k].response.status \in {"400", "401_other"})
    => /\ k = Len(ads.calls)
       /\ ads.pc = "done"
       /\ ads.raised =
            IF ads.calls[k].response.status = "400"
            THEN "DataOutConnectorError"
            ELSE "DataOutConnectorAuthenticationError"

NonRetriableResponseWitness ==
  /\ ads.op = "upload_click_conversions"
  /\ ads.pc = "done"
  /\ Urls(ads.calls) = <<"token", "upload">>
  /\ ads.calls[2].response.status = "401_other"
  /\ ads.raised = "DataOutConnectorAuthenticationError"

\* the place of a request in the customer-match upload
RequestRank(url) ==
  IF url = "search_list" THEN 1
  ELSE IF url = "create_list" THEN 2
  ELSE IF url = "create_job" THEN 3
  ELSE IF url = "add_operations" THEN 4
  ELSE IF url = "run_job" THEN 5
  ELSE 6

\* the API requests of a call that were answered 200
Answered(calls) ==
  {calls[k].url : k \in {j \in 1 .. Len(calls) :
                           /\ calls[j].url # "token"
                           /\ calls[j].response.status = "200"}}

\* C26: the requests of a customer-match upload come in the order search
\* list, create list, create job, add operations, run job, query job
\* status; the list is created only if create_new_list is set; a call that
\* returns has made all of them; and when the list is absent and
\* create_new_list is false the call raises a value error after the search,
\* with no list or job created and no member uploaded.
CustomerMatchRequestsInOrder ==
  ads.op = "upload_customer_match_user_list" =>
    /\ \A k, l \in 1 .. Len(ads.calls) :
         (k < l /\ ads.calls[k].url # "token" /\ ads.calls[l].url # "token")
           => RequestRank(ads.calls[k].url) <= RequestRank(ads.calls[l].url)
    /\ "create_list" \in Range(Urls(ads.calls)) => ads.create_new_list
    /\ (ads.pc = "done" /\ ads.raised = "none") =>
         /\ {"search_list", "create_job", "add_operations", "run_job",
             "job_status"} \subseteq Answered(ads.calls)
         /\ ads.list_exists
         /\ ads.members_added = ads.payloads
    /\ (~ads.list_exists /\ ~ads.create_new_list) =>
         /\ Range(Urls(ads.calls)) \subseteq {"token", "search_list"}
         /\ ads.lists_created = 0
         /\ ads.jobs_created = 0
         /\ ads.members_added = 0
         /\ "search_list" \in Answered(ads.calls) =>
              /\ ads.pc = "done"
              /\ ads.raised = "DataOutConnectorValueError"

CustomerMatchWitness ==
  /\ ads.op = "upload_customer_match_user_list"
  /\ ads.pc = "done"
  /\ ads.raised = "none"
  /\ ads.create_new_list
  /\ ads.lists_created = 1
  /\ ads.payloads = 1
  /\ Urls(ads.calls) = <<"token", "search_list", "create_list", "create_job",
                         "add_operations", "run_job", "job_status">>

\* a customer-match upload for an absent list with create_new_list false
\* has ended in a value error after the token request and the search
CustomerMatchRefusedWitness ==
  /\ ads.op = "upload_customer_match_user_list"
  /\ ads.pc = "done"
  /\ ads.raised = "DataOutConnectorValueError"
  /\ ~ads.create_new_list
  /\ Urls(ads.calls) = <<"token", "search_list">>

\* the failed events the monitoring table holds for the positions of a blob
StoredFailuresOf(b) ==
  {f \in group.failures :
     f.location = b.location /\ f.position \in BlobPositions(b)}

RangesOverlap(r1, r2) ==
  r1.location = r2.location /\ r1.start < r2.end /\ r2.start < r1.end

\* C22: two runs executing at the same time for the same location never
\* both record processed ranges that overlap, and never both send the same
\* source position.
ConcurrentRunsNeverOverlap ==
  /\ \A r1 \in concurrent.run[1].recorded :
       \A r2 \in concurrent.run[2].recorded : ~RangesOverlap(r1, r2)
  /\ concurrent.run[1].sent \cap concurrent.run[2].sent = {}

\* the age in days a row had when the last cleanup started
AgeAtPrune(row) == retention.pruned_at - row.timestamp

\* C21: with days_to_live = 50, a cleanup deletes the rows that were 51
\* days old when it started and keeps those that were 49 days old; every
\* row it deletes was older than 50 days, whatever was written while it
\* ran, and a row written while it ran is kept.
PruneKeepsTheWindow ==
  /\ retention.pc = "pruned" =>
       \A r \in retention.before :
         /\ AgeAtPrune(r) = 51 => r \notin retention.rows
         /\ AgeAtPrune(r) = 49 => r \in retention.rows
  /\ \A r \in retention.deleted : AgeAtPrune(r) > 50
  /\ \A r \in retention.ever :
       r.timestamp >= retention.now - 49 => r \in retention.rows

PruneKeepsTheWindowWitness ==
  /\ retention.pc = "pruned"
  /\ retention.writes = 1
  /\ \E old \in retention.before, new \in retention.before :
       /\ AgeAtPrune(old) = 51 /\ old \notin retention.rows
       /\ AgeAtPrune(new) = 49 /\ new \in retention.rows
  /\ \E r \in retention.rows \ retention.before :
       r.timestamp >= retention.pruned_at

====
